---- MODULE Spec2Model ----
(***************************************************************************)
(* Trend aggregation pipeline of app/agents/research_agent.py              *)
(* (ResearchAgent.find_trending_topics and the helpers it calls), the idea *)
(* synthesis of ResearchAgent.generate_content_ideas, and the workflow     *)
(* operations of CraeftoOrchestrator (app/orchestrator.py) that run both;  *)
(* the scheduling queue and the Twitter publishing of the Publisher        *)
(* (app/agents/publisher.py), and the circuit breakers of CraeftoMonitor   *)
(* (app/utils/monitoring.py).                                              *)
(*                                                                         *)
(* Texts are TLA+ strings, handled character by character.  Scores are     *)
(* fixed-point integers in units of 1/Scale (exact decimal arithmetic in   *)
(* place of IEEE doubles; round(x, 2) rounds half to even).  Candidate     *)
(* dicts live in `heap`, lists hold references <<adapter, index>> to them, *)
(* so that in-place updates of a dict are seen through every list that     *)
(* holds it, as in Python.                                                 *)
(***************************************************************************)
EXTENDS Integers, Sequences, FiniteSets, TLC

VARIABLES
    pc,             \* position of find_trending_topics
    task,           \* task[a]: state of the adapter coroutine a
    results,        \* the outcomes asyncio.gather keeps, one slot per adapter
    out_of_order,   \* some adapter finished before one listed ahead of it
    rng,            \* state of the `random` module for this run
    heap,           \* heap[a]: the candidate dicts created by adapter a
    all_topics,     \* find_trending_topics: all_topics
    unique_topics,  \* find_trending_topics: unique_topics
    scored_topics,  \* find_trending_topics: scored_topics
    final_topics,   \* find_trending_topics: final_topics (the return value)
    xs,             \* harness: the list handed to the function under test
    ys,             \* harness: result of the first call
    zs,             \* harness: result of the second call
    calls,          \* harness: relevance_score read after each scorer call
    caught,         \* adapters in which an `except Exception` clause has run
    trending_data,  \* generate_content_ideas: the argument
    ideas,          \* the idea dicts created by _create_content_idea
    content_ideas,  \* generate_content_ideas: content_ideas
    prioritized_ideas, \* generate_content_ideas: prioritized_ideas (the return value)
    clock,          \* datetime.utcnow(), in seconds
    workflow,       \* CraeftoOrchestrator: the workflow operation in progress
    safe_mode,      \* CraeftoOrchestrator.safe_mode
    publish_calls,  \* publish/send operations of the Publisher invoked so far
    result,         \* what the workflow operation returned
    publishing_queue,  \* Publisher.publishing_queue: the entries, by id
    schedule_entries,  \* the schedule_entry dicts created by schedule_content
    processing,     \* processing[p]: the p-th running process_scheduled_content
    current_workflow,  \* CraeftoOrchestrator.current_workflow
    workflow_history,  \* CraeftoOrchestrator.workflow_history
    sprints,        \* sprints[s]: the s-th manual_content_sprint call
    circuit_breakers,  \* CraeftoMonitor.circuit_breakers: api name -> CircuitBreaker
    handlers,       \* handlers[h]: the h-th running handle_api_failure
    breaker_call,   \* a client of CircuitBreaker.call
    thread,         \* the publish_to_twitter call
    post_tweet_calls   \* lengths of the texts passed to TwitterClient.post_tweet

\* state of generate_content_ideas
synthVars == <<trending_data, ideas, content_ideas, prioritized_ideas, clock>>

\* state of the CraeftoOrchestrator
orchVars == <<workflow, safe_mode, publish_calls, result>>

\* state of the Publisher's scheduling queue
pubVars == <<publishing_queue, schedule_entries, processing>>

\* the orchestrator's workflow bookkeeping
histVars == <<current_workflow, workflow_history, sprints>>

\* state of the CraeftoMonitor's circuit breakers
monVars == <<circuit_breakers, handlers, breaker_call>>

\* state of Publisher.publish_to_twitter
twVars == <<thread, post_tweet_calls>>

\* the monitor and the Twitter publisher
extVars == <<monVars, twVars>>

\* state outside the research pipeline and the workflow operations
sideVars == <<pubVars, histVars, extVars>>

\* the research pipeline, idea synthesis and workflow operations
coreVars == <<pc, task, results, out_of_order, rng, heap, all_topics, unique_topics,
              scored_topics, final_topics, xs, ys, zs, calls, caught,
              trending_data, ideas, content_ideas, prioritized_ideas, orchVars>>

vars == <<pc, task, results, out_of_order, rng, heap, all_topics, unique_topics,
          scored_topics, final_topics, xs, ys, zs, calls, caught, synthVars, orchVars,
          sideVars>>

(***************************************************************************)
(* Numbers                                                                 *)
(***************************************************************************)
Scale == 100 * 100

Min(a, b) == IF a <= b THEN a ELSE b

Max(a, b) == IF a >= b THEN a ELSE b

\* floor division, also for negative numerators
FloorDiv(a, b) == IF a >= 0 THEN a \div b ELSE -((-a + b - 1) \div b)

\* Python round(x, 2) on a value held in units of 1/Scale: the result is a
\* multiple of Scale/100, ties go to the even multiple.
Round2(v) ==
    LET step == Scale \div 100
        q == FloorDiv(v, step)
        r == v - q * step
    IN  IF 2 * r < step THEN q * step
        ELSE IF 2 * r > step THEN (q + 1) * step
        ELSE IF q % 2 = 0 THEN q * step ELSE (q + 1) * step

(***************************************************************************)
(* Strings: str.lower, str.split, str.title, `in`, re.sub(r'[^\w\s]', ' ') *)
(***************************************************************************)
UpperAlpha == "ABCDEFGHIJKLMNOPQRSTUVWXYZ"

LowerAlpha == "abcdefghijklmnopqrstuvwxyz"

Digits == "0123456789_"

CharAt(s, i) == SubSeq(s, i, i)

CharsOf(alpha) == {CharAt(alpha, i) : i \in 1..Len(alpha)}

UpperChars == CharsOf(UpperAlpha)

LowerChars == CharsOf(LowerAlpha)

WordChars == UpperChars \cup LowerChars \cup CharsOf(Digits)

IndexIn(alpha, c) == CHOOSE i \in 1..Len(alpha) : CharAt(alpha, i) = c

IsUpper(c) == c \in UpperChars

IsLower(c) == c \in LowerChars

IsSpace(c) == c = " "

\* \w of the re module
IsWordChar(c) == c \in WordChars

LowerChar(c) == IF IsUpper(c) THEN CharAt(LowerAlpha, IndexIn(UpperAlpha, c)) ELSE c

UpperChar(c) == IF IsLower(c) THEN CharAt(UpperAlpha, IndexIn(LowerAlpha, c)) ELSE c

RECURSIVE MapChars(_, _, _, _)
\* the characters lo..hi of s, each one mapped (the range is halved so that
\* the evaluation stays shallow);
\* which = "lower": str.lower();  which = "punct": re.sub(r'[^\w\s]', ' ', s);
\* which = "title": str.title(), where a cased letter is upper-cased when the
\* character before it is not a cased letter and lower-cased otherwise
MapChars(s, lo, hi, which) ==
    IF lo > hi THEN ""
    ELSE IF lo = hi
    THEN LET c == CharAt(s, lo)
             prevCased == lo > 1 /\ (IsUpper(CharAt(s, lo - 1)) \/ IsLower(CharAt(s, lo - 1)))
         IN  IF which = "lower" THEN LowerChar(c)
             ELSE IF which = "punct" THEN (IF IsWordChar(c) \/ IsSpace(c) THEN c ELSE " ")
             ELSE IF prevCased THEN LowerChar(c) ELSE UpperChar(c)
    ELSE LET mid == (lo + hi) \div 2
         IN  MapChars(s, lo, mid, which) \o MapChars(s, mid + 1, hi, which)

Lower(s) == MapChars(s, 1, Len(s), "lower")

StripPunct(s) == MapChars(s, 1, Len(s), "punct")

Title(s) == MapChars(s, 1, Len(s), "title")

\* the positions where a word of s starts: a non-blank after a blank or at
\* the beginning
WordStarts(s) ==
    {i \in 1..Len(s) : ~IsSpace(CharAt(s, i)) /\ (i = 1 \/ IsSpace(CharAt(s, i - 1)))}

\* the word of s that starts at position i
WordAt(s, i) ==
    LET ends == {j \in i..Len(s) : j = Len(s) \/ IsSpace(CharAt(s, j + 1))}
    IN  SubSeq(s, i, CHOOSE j \in ends : \A k \in ends : j <= k)

RECURSIVE Ascending(_)
\* a finite set of integers as an increasing sequence
Ascending(S) ==
    IF S = {} THEN <<>>
    ELSE LET m == CHOOSE x \in S : \A y \in S : x <= y
         IN  <<m>> \o Ascending(S \ {m})

\* str.split(): the maximal runs of non-blank characters, in order
Split(s) ==
    LET starts == Ascending(WordStarts(s))
    IN  [k \in 1..Len(starts) |-> WordAt(s, starts[k])]

RECURSIVE Join(_)
\* ' '.join(words)
Join(words) ==
    IF words = <<>> THEN ""
    ELSE IF Len(words) = 1 THEN words[1]
    ELSE words[1] \o " " \o Join(Tail(words))

\* k in s
Contains(s, k) ==
    \E i \in 1..(Len(s) - Len(k) + 1) : SubSeq(s, i, i + Len(k) - 1) = k

\* s[:n]
Prefix(s, n) == SubSeq(s, 1, Min(n, Len(s)))

RECURSIVE Strip(_)
\* str.strip() for blanks
Strip(s) ==
    IF s = "" THEN ""
    ELSE IF IsSpace(CharAt(s, 1)) THEN Strip(Tail(s))
    ELSE IF IsSpace(CharAt(s, Len(s))) THEN Strip(SubSeq(s, 1, Len(s) - 1))
    ELSE s

Range(f) == {f[i] : i \in DOMAIN f}

\* s[:n] of a list
Take(s, n) == SubSeq(s, 1, Min(n, Len(s)))

\* sum(1 for keyword in keywords if keyword in text)
CountMatches(keywords, text) == Cardinality({i \in DOMAIN keywords : Contains(text, keywords[i])})

AnyIn(keywords, text) == \E i \in DOMAIN keywords : Contains(text, keywords[i])

(***************************************************************************)
(* ResearchAgent: keyword tables and the pure helpers                      *)
(***************************************************************************)
craefto_keywords ==
    <<"framer", "design", "templates", "saas", "conversion", "landing page",
      "ui/ux", "web design", "no-code", "startup", "marketing", "growth",
      "optimization", "user experience", "interface", "prototype">>

content_angles ==
    <<"Framer template showcase", "SaaS design breakdown", "CRO optimization tips",
      "Design trend analysis", "Template customization guide",
      "User experience insights", "Conversion optimization case study",
      "Design system breakdown", "No-code solution comparison",
      "Startup design mistakes">>

stop_words ==
    {"the", "a", "an", "and", "or", "but", "in", "on", "at", "to", "for", "of",
     "with", "by", "is", "are", "was", "were", "be", "been", "being", "have",
     "has", "had", "do", "does", "did", "will", "would", "could", "should"}

tech_keywords ==
    <<"saas", "api", "ai", "ml", "automation", "platform", "tool", "app",
      "software", "system", "service", "solution">>

saas_keywords ==
    <<"saas", "software", "platform", "tool", "api", "automation", "business",
      "startup", "enterprise", "subscription", "cloud", "analytics",
      "dashboard", "integration", "workflow", "productivity">>

\* [w for w in words if w not in stop_words and len(w) > 2]
MeaningfulWords(words) == SelectSeq(words, LAMBDA w : w \notin stop_words /\ Len(w) > 2)

\* ExtractTopic going wrong: the tech keywords play no part, the first
\* meaningful words are returned
ExtractTopicFirstWords(text) ==
    LET words == Split(StripPunct(Lower(text)))
        mw == MeaningfulWords(words)
    IN  IF Len(mw) > 0 THEN Title(Join(Take(mw, 3))) ELSE Prefix(text, 50)

\* ResearchAgent._extract_topic_from_text
ExtractTopic(text) ==
    LET words == Split(StripPunct(Lower(text)))
        mw == MeaningfulWords(words)
        n == Len(mw)
        phrase(i) == Join(SubSeq(mw, i, Min(i + 2, n)))
        hits == {i \in 1..(n - 1) : AnyIn(tech_keywords, phrase(i))}
    IN  IF n >= 2
        THEN IF hits # {}
             THEN Title(phrase(CHOOSE i \in hits : \A j \in hits : i <= j))
             ELSE Title(Join(Take(mw, 3)))
        ELSE IF n > 0 THEN Title(Join(mw)) ELSE Prefix(text, 50)

\* ResearchAgent._calculate_saas_relevance, in units of 1/Scale
SaasRelevance(text) ==
    Min((CountMatches(saas_keywords, Lower(text)) * Scale) \div Len(saas_keywords), Scale)

\* ResearchAgent._calculate_craefto_relevance, in units of 1/Scale
CraeftoRelevance(text) ==
    Min((CountMatches(craefto_keywords, Lower(text)) * Scale) \div Len(craefto_keywords), Scale)


\* random.choice(options): the draw is a function of the generator state and
\* of the position k of the call
Choice(r, options, k) == options[((r + k) % Len(options)) + 1]

\* ResearchAgent._generate_craefto_angle
GenerateCraeftoAngle(r, topic, k) ==
    LET t == Lower(topic)
    IN  IF AnyIn(<<"design", "ui", "ux", "interface">>, t)
        THEN Choice(r, <<"SaaS design breakdown", "Design system analysis",
                         "User experience insights">>, k)
        ELSE IF AnyIn(<<"framer", "template", "prototype">>, t)
        THEN Choice(r, <<"Framer template showcase", "Template customization guide",
                         "Prototype to production workflow">>, k)
        ELSE IF AnyIn(<<"conversion", "cro", "optimization">>, t)
        THEN Choice(r, <<"CRO optimization tips", "Conversion optimization case study",
                         "Landing page optimization">>, k)
        ELSE IF AnyIn(<<"startup", "saas", "business">>, t)
        THEN Choice(r, <<"SaaS growth strategy", "Startup design mistakes",
                         "Business model analysis">>, k)
        ELSE Choice(r, content_angles, k)

(***************************************************************************)
(* The four source adapters                                                *)
(***************************************************************************)
Adapters == <<"reddit", "producthunt", "twitter", "google_trends">>

AdapterSet == Range(Adapters)

\* position of an adapter in the list handed to asyncio.gather
Pos(a) == CHOOSE i \in DOMAIN Adapters : Adapters[i] = a

RedditLimit == 25

RedditCap == 10

FreshnessHours == 48

SecondsPerHour == 3600

ContextLen == 200

ProductScan == 15

ProductHuntCap == 8

TwitterCap == 6

GoogleCap == 8

UniformLo == 60

UniformHi == 95

\* hot.json of r/SaaS: title, selftext, score, seconds since created_utc,
\* stickied; malformed marks a post whose selftext is JSON null
Post(title, selftext, score, age_h, stickied, malformed) ==
    [title |-> title, selftext |-> selftext, score |-> score,
     age_s |-> age_h * SecondsPerHour, stickied |-> stickied, malformed |-> malformed]

RedditFeed ==
    << Post("How we grew our SaaS to 10k MRR", "Long story short.", 420, 5, FALSE, FALSE),
       Post("My cofounder quit yesterday", "Need advice.", -35, 3, FALSE, FALSE),
       Post("SaaS tools roundup for founders", "", 310, 12, FALSE, FALSE),
       Post("Weekly feedback thread", "Post your product.", 55, 20, TRUE, FALSE),
       Post("Landing page conversion teardown", "We doubled signups.", 275, 30, FALSE, FALSE),
       Post("Churn analysis from 2019", "Old data.", 900, 72, FALSE, FALSE),
       Post("Pricing experiments that worked", "", 188, 10, FALSE, FALSE),
       Post("Framer templates for startup launch", "", 240, 8, FALSE, FALSE),
       Post("Cold email outreach playbook", "", 97, 40, FALSE, FALSE),
       Post("Growth SaaS grew our numbers", "", 130, 6, FALSE, FALSE),
       Post("Stripe billing migration notes", "", 64, 44, FALSE, FALSE),
       Post("Onboarding checklist teardown", "", 151, 9, FALSE, FALSE),
       Post("Hiring first support engineer", "", 43, 15, FALSE, FALSE),
       Post("No-code marketing automation stack", "", 222, 11, FALSE, FALSE),
       Post("Bootstrapped versus funded debate", "", 1250, 2, FALSE, FALSE),
       Post("Is it?", "", 15, 1, FALSE, FALSE),
       Post("Customer interviews script", "", 77, 7, FALSE, FALSE),
       Post("Design system for dashboards", "", 205, 13, FALSE, FALSE),
       Post("Annual plans discount math", "", 118, 16, FALSE, FALSE),
       Post("Affiliate program results", "", 86, 18, FALSE, FALSE),
       Post("Security questionnaire tips", "", 29, 21, FALSE, FALSE),
       Post("Product hunt launch recap", "", 173, 23, FALSE, FALSE),
       Post("Usage based pricing pitfalls", "", 142, 25, FALSE, FALSE),
       Post("Deleted post", "", 0, 4, FALSE, TRUE),
       Post("Community building lessons", "", 61, 27, FALSE, FALSE),
       Post("Support tooling comparison", "", 35, 29, FALSE, FALSE) >>

\* listings the server can answer with: a short one, or a full page
MaxPosts == 3

RedditResponses ==
    {[status |-> 200, posts |-> Take(RedditFeed, n)] : n \in (0..MaxPosts) \cup {RedditLimit}}
    \cup {[status |-> 503, posts |-> <<>>]}

RECURSIVE RedditLoop(_, _, _, _)
\* _scrape_reddit_saas: the loop over the posts.  A post of the wrong shape
\* raises inside the try block: the loop is left and the topics collected so
\* far are what the adapter goes on with.
RedditLoop(r, posts, i, topics) ==
    IF i > Len(posts) THEN topics
    ELSE LET post == posts[i]
             post_age_hours == (post.age_s * (Scale \div 100)) \div (SecondsPerHour \div 100)
             context == post.title \o ". " \o Prefix(post.selftext, ContextLen)
             topic == ExtractTopic(post.title)
         IN  IF post.stickied THEN RedditLoop(r, posts, i + 1, topics)
             ELSE IF post_age_hours > FreshnessHours * Scale
             THEN RedditLoop(r, posts, i + 1, topics)
             ELSE IF post.malformed THEN topics
             ELSE IF topic # "" /\ Len(topic) > 3
             THEN RedditLoop(r, posts, i + 1, Append(topics,
                    [topic |-> topic,
                     relevance_score |-> Min((post.score * Scale) \div 10, 100 * Scale),
                     source |-> "reddit",
                     context |-> Strip(context),
                     content_angle |-> GenerateCraeftoAngle(r, topic, i),
                     raw_score |-> post.score,
                     post_age_hours |-> post_age_hours]))
             ELSE RedditLoop(r, posts, i + 1, topics)

\* _scrape_reddit_saas: the dicts it creates (the local list `topics`)
RedditTopics(r, response) ==
    IF response.status = 200 THEN RedditLoop(r, response.posts, 1, <<>>) ELSE <<>>

\* a post of the wrong shape is reached (it is not stickied and not too old):
\* the exception lands in the adapter's `except Exception`
RedditRaises(response) ==
    /\ response.status = 200
    /\ \E i \in DOMAIN response.posts :
          LET post == response.posts[i]
          IN  /\ post.malformed
              /\ ~post.stickied
              /\ (post.age_s * (Scale \div 100)) \div (SecondsPerHour \div 100)
                    <= FreshnessHours * Scale

\* the adapter's return value: `topics[:10]`
ScrapeReddit(r, response) == Take(RedditTopics(r, response), RedditCap)

\* a product card of producthunt.com as BeautifulSoup finds it: the text of
\* its heading and description elements (has_name / has_desc: the element was
\* found), broken: handling the card raises
Card(name, description) ==
    [name |-> name, description |-> description, has_name |-> TRUE,
     has_desc |-> TRUE, broken |-> FALSE]

ProductHuntCards ==
    << Card("Pixel Forge", "Design platform and software tool with api automation for teams"),
       Card("Ledgerly", "Accounting made simple for everyone everywhere"),
       Card("Flow Desk", "SaaS workflow dashboard with analytics, integration, cloud and productivity tool"),
       [Card("", "A card without a heading element at all") EXCEPT !.has_name = FALSE],
       Card("Launch Kit", "Startup business software platform with api, automation, subscription and cloud tool"),
       Card("Orbit Mail", "Enterprise saas software platform tool api automation business startup subscription"),
       Card("Form Stack", "No-code saas platform tool with api integration workflow and analytics"),
       Card("Quiet Hours", "Productivity tool with cloud api dashboard and workflow automation"),
       [Card("Glitch", "Markup that the parser chokes on, software platform") EXCEPT !.broken = TRUE],
       Card("Beacon CRM", "Business software platform: saas analytics, dashboard, integration, workflow, productivity, cloud, api, tool, automation, enterprise"),
       Card("Tally Ho", "Subscription analytics platform for saas startup business with software api tool"),
       Card("Growth Lens", "Marketing analytics dashboard tool for startup growth with api integration and cloud"),
       Card("Pixel Forge Pro", "Design platform and software tool with api automation for agencies"),
       Card("Relay Base", "Integration platform software with api and automation workflow"),
       Card("Sprout Pay", "Subscription business tool for enterprise cloud software with productivity dashboard"),
       Card("Nimbus", "Cloud platform software tool with api automation and analytics dashboard integration"),
       Card("Echo Notes", "Productivity software tool platform api automation cloud"),
       Card("Zen Board", "Workflow dashboard productivity tool platform software cloud") >>

\* pages the server can answer with: a short one, or the whole front page
MaxCards == 3

ProductHuntResponses ==
    {[status |-> 200, cards |-> Take(ProductHuntCards, n)] :
        n \in (0..MaxCards) \cup {Len(ProductHuntCards)}}
    \cup {[status |-> 503, cards |-> <<>>]}

RECURSIVE ProductHuntLoop(_, _, _, _)
\* _scrape_producthunt: the loop over products[:15]; a card that raises is
\* skipped by the inner try/except
ProductHuntLoop(r, cards, i, topics) ==
    IF i > Len(cards) THEN topics
    ELSE LET card == cards[i]
             name == Strip(card.name)
             description == Strip(card.description)
             text == name \o ": " \o description
             saas_score == SaasRelevance(Lower(name \o " " \o description))
             topic == ExtractTopic(text)
         IN  IF card.broken THEN ProductHuntLoop(r, cards, i + 1, topics)
             ELSE IF card.has_name /\ card.has_desc /\ 10 * saas_score > 3 * Scale
             THEN ProductHuntLoop(r, cards, i + 1, Append(topics,
                    [topic |-> IF topic # "" THEN topic ELSE name,
                     relevance_score |-> saas_score * 100,
                     source |-> "producthunt",
                     context |-> text,
                     content_angle |-> GenerateCraeftoAngle(r, name, i),
                     product_name |-> name]))
             ELSE ProductHuntLoop(r, cards, i + 1, topics)

\* one of the cards looked at raises: the inner `except Exception` logs it
ProductHuntRaises(response) ==
    /\ response.status = 200
    /\ \E i \in DOMAIN Take(response.cards, ProductScan) : response.cards[i].broken

\* _scrape_producthunt: `topics[:8]`
ScrapeProductHunt(r, response) ==
    IF response.status = 200
    THEN Take(ProductHuntLoop(r, Take(response.cards, ProductScan), 1, <<>>), ProductHuntCap)
    ELSE <<>>

trending_saas_topics ==
    <<"AI SaaS tools", "No-code platforms", "SaaS analytics", "Customer success tools",
      "SaaS pricing models", "API-first SaaS", "SaaS onboarding", "PLG strategies",
      "SaaS metrics", "B2B automation">>

\* random.uniform(60, 95) of the i-th pass of the loop (i from 0): a whole
\* number of points in [UniformLo, UniformHi], a function of the generator state
Uniform(r, i) ==
    (UniformLo + ((r * 17 + i * (3 + 8 * r)) % (UniformHi - UniformLo + 1))) * Scale

\* _scrape_twitter_trends: `topics[:6]`
ScrapeTwitter(r) ==
    Take([k \in 1..Len(trending_saas_topics) |->
            LET topic == trending_saas_topics[k]
                i == k - 1
            IN  [topic |-> topic,
                 relevance_score |-> Uniform(r, i) - (i * 3) * Scale,
                 source |-> "twitter",
                 context |-> "Trending SaaS topic: " \o topic,
                 content_angle |-> GenerateCraeftoAngle(r, topic, i),
                 trend_type |-> "hashtag"]],
         TwitterCap)

web_dev_trends ==
    <<"React 18 features", "Next.js 14", "TypeScript best practices",
      "Tailwind CSS components", "Serverless architecture", "JAMstack",
      "Headless CMS", "Progressive Web Apps", "Web performance optimization",
      "Design systems", "Component libraries", "CSS-in-JS">>

RECURSIVE InsertDescTiesReversed(_, _)
\* InsertDesc going wrong: x goes ahead of the elements that score the same
InsertDescTiesReversed(sorted, x) ==
    IF sorted = <<>> THEN <<x>>
    ELSE IF Head(sorted).relevance_score > x.relevance_score
    THEN <<Head(sorted)>> \o InsertDescTiesReversed(Tail(sorted), x)
    ELSE <<x>> \o sorted

RECURSIVE InsertDesc(_, _)
\* one step of a stable descending sort by relevance_score: x goes after
\* every element whose score is >= its own
InsertDesc(sorted, x) ==
    IF sorted = <<>> THEN <<x>>
    ELSE IF Head(sorted).relevance_score >= x.relevance_score
    THEN <<Head(sorted)>> \o InsertDesc(Tail(sorted), x)
    ELSE <<x>> \o sorted

RECURSIVE SortDesc(_)
\* sorted(topics, key=lambda x: x['relevance_score'], reverse=True)
SortDesc(topics) ==
    IF topics = <<>> THEN <<>>
    ELSE InsertDesc(SortDesc(SubSeq(topics, 1, Len(topics) - 1)), topics[Len(topics)])

\* _scrape_google_trends: the trends scoring above 30, best first, `[:8]`
ScrapeGoogle(r) ==
    LET scored == [k \in 1..Len(web_dev_trends) |->
                     [topic |-> web_dev_trends[k],
                      relevance_score |-> CraeftoRelevance(web_dev_trends[k]) * 100,
                      source |-> "google_trends",
                      context |-> "Trending in web development: " \o web_dev_trends[k],
                      content_angle |-> GenerateCraeftoAngle(r, web_dev_trends[k], k - 1),
                      category |-> "web_development"]]
        topics == SelectSeq(scored, LAMBDA t : t.relevance_score > 30 * Scale)
    IN  Take(SortDesc(topics), GoogleCap)

(***************************************************************************)
(* Deduplication, scoring, ranking                                         *)
(***************************************************************************)
\* the dict a reference <<adapter, index>> points to
Deref(h, ref) == h[ref[1]][ref[2]]

\* the references to everything adapter a returned
RefsOf(h, a) == [k \in 1..Len(h[a]) |-> <<a, k>>]

\* set(topic.split())
WordSet(topic) == Range(Split(topic))

\* SignificantOverlap going wrong: equal word sets count as duplicates
\* whatever their size
SignificantOverlapEqualSets(topic_words, seen_words) ==
    LET overlap == Cardinality(topic_words \cap seen_words)
    IN  \/ topic_words = seen_words
        \/ /\ overlap >= 2
           /\ \/ 10 * overlap > 6 * Cardinality(topic_words)
              \/ 10 * overlap > 6 * Cardinality(seen_words)

\* a division of line 491 that is evaluated with an empty word set as its
\* denominator (ZeroDivisionError): `and` and `or` stop at the first operand
\* that decides
DividesByEmpty(topic_words, seen_words) ==
    LET overlap == Cardinality(topic_words \cap seen_words)
    IN  /\ overlap >= 2
        /\ \/ topic_words = {}
           \/ /\ ~(10 * overlap > 6 * Cardinality(topic_words))
              /\ seen_words = {}

\* the test of _deduplicate_topics on two word sets; overlap / len(..) > 0.6
\* is only evaluated when overlap >= 2, so neither set is empty there
SignificantOverlap(topic_words, seen_words) ==
    LET overlap == Cardinality(topic_words \cap seen_words)
    IN  /\ overlap >= 2
        /\ \/ 10 * overlap > 6 * Cardinality(topic_words)
           \/ 10 * overlap > 6 * Cardinality(seen_words)

\* is_duplicate of _deduplicate_topics for one topic against seen_topics
IsDuplicate(topic, seen_topics) ==
    \E seen_topic \in seen_topics : SignificantOverlap(WordSet(topic), WordSet(seen_topic))

RECURSIVE DedupLoopLastSeen(_, _, _, _, _)
\* DedupLoop going wrong: seen_topics is overwritten with every topic looked
\* at instead of growing by the topics kept
DedupLoopLastSeen(h, topics, i, unique_list, seen_topics) ==
    IF i > Len(topics) THEN unique_list
    ELSE LET topic == Lower(Deref(h, topics[i]).topic)
         IN  IF IsDuplicate(topic, seen_topics)
             THEN DedupLoopLastSeen(h, topics, i + 1, unique_list, {topic})
             ELSE DedupLoopLastSeen(h, topics, i + 1, Append(unique_list, topics[i]), {topic})

RECURSIVE DedupLoopPrepend(_, _, _, _, _)
\* DedupLoop going wrong: a kept topic is put at the front of unique_topics
DedupLoopPrepend(h, topics, i, unique_list, seen_topics) ==
    IF i > Len(topics) THEN unique_list
    ELSE LET topic == Lower(Deref(h, topics[i]).topic)
         IN  IF IsDuplicate(topic, seen_topics)
             THEN DedupLoopPrepend(h, topics, i + 1, unique_list, seen_topics)
             ELSE DedupLoopPrepend(h, topics, i + 1, <<topics[i]>> \o unique_list,
                                   seen_topics \cup {topic})

RECURSIVE DedupLoop(_, _, _, _, _)
\* the loop of _deduplicate_topics from its i-th pass on
DedupLoop(h, topics, i, unique_list, seen_topics) ==
    IF i > Len(topics) THEN unique_list
    ELSE LET topic == Lower(Deref(h, topics[i]).topic)
         IN  IF IsDuplicate(topic, seen_topics)
             THEN DedupLoop(h, topics, i + 1, unique_list, seen_topics)
             ELSE DedupLoop(h, topics, i + 1, Append(unique_list, topics[i]),
                            seen_topics \cup {topic})

\* ResearchAgent._deduplicate_topics: a new list of the same dicts
DeduplicateTopics(h, topics) == DedupLoop(h, topics, 1, <<>>, {})

BoostWeight == 30

\* SourceMultiplier going wrong: an unlisted source is trusted like reddit
SourceMultiplierUnlistedHigh(source) ==
    CASE source = "reddit" -> 12
      [] source = "producthunt" -> 11
      [] source = "google_trends" -> 13
      [] source = "twitter" -> 10
      [] OTHER -> 12

\* source_multipliers.get(source, 1.0), in tenths
SourceMultiplier(source) ==
    CASE source = "reddit" -> 12
      [] source = "producthunt" -> 11
      [] source = "google_trends" -> 13
      [] source = "twitter" -> 10
      [] OTHER -> 10

\* d[key] = value, adding the key when the dict lacks it
SetKey(d, key, value) ==
    [k \in DOMAIN d \cup {key} |-> IF k = key THEN value ELSE d[k]]

\* ScoreTopic going wrong: the boost is taken off the base score
ScoreTopicSubtractsBoost(topic_data) ==
    LET base_score == topic_data.relevance_score
        craefto_boost == CraeftoRelevance(topic_data.topic) * BoostWeight
        multiplier == SourceMultiplier(topic_data.source)
        final_score == Min(FloorDiv((base_score - craefto_boost) * multiplier, 10),
                           100 * Scale)
    IN  SetKey(SetKey(topic_data, "relevance_score", Round2(final_score)),
               "craefto_boost", Round2(craefto_boost))

\* the body of the loop of _calculate_relevance_scores: the dict after the
\* two assignments.  (base_score + craefto_boost) * multiplier is a whole
\* number of 1/Scale units for every score of at most three decimals.
ScoreTopic(topic_data) ==
    LET base_score == topic_data.relevance_score
        craefto_boost == CraeftoRelevance(topic_data.topic) * BoostWeight
        multiplier == SourceMultiplier(topic_data.source)
        final_score == Min(FloorDiv((base_score + craefto_boost) * multiplier, 10),
                           100 * Scale)
    IN  SetKey(SetKey(topic_data, "relevance_score", Round2(final_score)),
               "craefto_boost", Round2(craefto_boost))

RECURSIVE ScoreLoop(_, _, _)
ScoreLoop(h, topics, i) ==
    IF i > Len(topics) THEN h
    ELSE LET ref == topics[i]
         IN  ScoreLoop([h EXCEPT ![ref[1]][ref[2]] = ScoreTopic(Deref(h, ref))],
                       topics, i + 1)

\* ResearchAgent._calculate_relevance_scores: the heap after the call (the
\* dicts are updated in place, the list handed in is the list handed back)
CalculateRelevanceScores(h, topics) == ScoreLoop(h, topics, 1)

TopK == 20

\* sorted(scored_topics, key=lambda x: x['relevance_score'], reverse=True)
SortRefsDesc(h, topics) ==
    LET keyed == [i \in 1..Len(topics) |->
                    [ref |-> topics[i], relevance_score |-> Deref(h, topics[i]).relevance_score]]
        sorted == SortDesc(keyed)
    IN  [i \in 1..Len(sorted) |-> sorted[i].ref]

\* RankTopics going wrong: the slice is taken without sorting
RankTopicsUnsorted(h, topics) == Take(topics, TopK)

\* find_trending_topics: final_topics
RankTopics(h, topics) == Take(SortRefsDesc(h, topics), TopK)

(***************************************************************************)
(* find_trending_topics                                                    *)
(***************************************************************************)
\* generator states considered: 0..MaxSeed
MaxSeed == 1

NoResult == [kind |-> "none", refs |-> <<>>]

\* generate_content_ideas has not been called
SynthIdle ==
    /\ trending_data = <<>>
    /\ ideas = <<>>
    /\ content_ideas = <<>>
    /\ prioritized_ideas = <<>>
    /\ clock = 0

NoWorkflow == [kind |-> "none", topic |-> ""]

\* no Publisher at work
PublisherIdle ==
    /\ publishing_queue = <<>>
    /\ schedule_entries = <<>>
    /\ processing = <<>>

\* `self.current_workflow = None`
NoCurrentWorkflow == [id |-> 0 - 1, status |-> "none"]

\* no workflow bookkeeping yet, no sprint called
HistoryIdle ==
    /\ current_workflow = NoCurrentWorkflow
    /\ workflow_history = <<>>
    /\ sprints = <<>>

\* `self.circuit_breakers = {}`, no handle_api_failure running
MonitorIdle ==
    /\ circuit_breakers = <<>>
    /\ handlers = <<>>
    /\ breaker_call = <<>>

\* publish_to_twitter not called
TwitterIdle ==
    /\ thread = <<>>
    /\ post_tweet_calls = <<>>

ExtIdle == MonitorIdle /\ TwitterIdle

SideIdle == PublisherIdle /\ HistoryIdle /\ ExtIdle

\* the ResearchAgent is used on its own, no workflow operation is running
OrchIdle ==
    /\ workflow = NoWorkflow
    /\ safe_mode = TRUE
    /\ publish_calls = 0
    /\ result = [status |-> "none"]

\* gather called without return_exceptions
GatherFailFast == FALSE

\* asyncio.gather(*tasks, return_exceptions=True)
GatherReturnExceptions == TRUE

Finished(a) == task[a] \in {"returned", "raised"}

\* GatherReady going wrong: the run goes on only when every task returned
GatherReadyAllReturned == \A a \in AdapterSet : task[a] = "returned"

\* gather's future is done
GatherReady ==
    IF GatherReturnExceptions
    THEN \A a \in AdapterSet : Finished(a)
    ELSE \/ \E a \in AdapterSet : task[a] = "raised"
         \/ \A a \in AdapterSet : task[a] = "returned"

\* StoreOutcome going wrong: outcomes are kept in the order they arrive
StoreOutcomeNextFree(res, a, outcome) ==
    LET free == {i \in DOMAIN res : res[i].kind = "none"}
    IN  [res EXCEPT ![CHOOSE i \in free : \A j \in free : i <= j] = outcome]

\* gather keeps the outcome of a finished task in the slot of that task,
\* whatever the order the tasks finish in
StoreOutcome(res, a, outcome) == [res EXCEPT ![Pos(a)] = outcome]

RECURSIVE CollectUntilException(_, _)
\* CollectTopics going wrong: `break` in place of `continue`
CollectUntilException(res, i) ==
    IF i > Len(res) THEN <<>>
    ELSE IF res[i].kind = "exception" THEN <<>>
    ELSE res[i].refs \o CollectUntilException(res, i + 1)

RECURSIVE CollectTopics(_, _)
\* the loop over enumerate(results): an exception is logged and skipped,
\* a list is appended to all_topics
CollectTopics(res, i) ==
    IF i > Len(res) THEN <<>>
    ELSE IF res[i].kind = "exception" THEN CollectTopics(res, i + 1)
    ELSE res[i].refs \o CollectTopics(res, i + 1)

\* a task runs for the first time once the tasks created before it have
CanStart(a) ==
    /\ pc = "gather"
    /\ task[a] = "pending"
    /\ \A b \in AdapterSet : Pos(b) < Pos(a) => task[b] # "pending"

Finish(a, outcome, topics) ==
    /\ task' = [task EXCEPT ![a] = outcome]
    /\ heap' = [heap EXCEPT ![a] = topics]
    /\ results' = StoreOutcome(results, a,
                       IF outcome = "raised" THEN [kind |-> "exception", refs |-> <<>>]
                       ELSE [kind |-> "list", refs |-> RefsOf(heap', a)])
    /\ out_of_order' = (out_of_order \/ \E b \in AdapterSet : Pos(b) < Pos(a) /\ ~Finished(b))
    /\ UNCHANGED <<pc, rng, all_topics, unique_topics, scored_topics,
                   final_topics, xs, ys, zs, calls, synthVars, orchVars, sideVars>>

\* lines 90-97: the four coroutines are created and handed to gather
StartGather ==
    /\ pc = "start"
    /\ pc' = "gather"
    /\ task' = [a \in AdapterSet |-> "pending"]
    /\ UNCHANGED <<results, out_of_order, rng, heap, all_topics, unique_topics,
                   scored_topics, final_topics, xs, ys, zs, calls, caught, synthVars, orchVars, sideVars>>

\* an adapter that does network I/O suspends at `async with self.session.get(url)`
Suspend(a) ==
    /\ a \in {"reddit", "producthunt"}
    /\ CanStart(a)
    /\ task' = [task EXCEPT ![a] = "waiting"]
    /\ UNCHANGED <<pc, results, out_of_order, rng, heap, all_topics, unique_topics,
                   scored_topics, final_topics, xs, ys, zs, calls, caught, synthVars, orchVars, sideVars>>

\* self.session.get raises at once (no session, refused connection): the
\* adapter's except clause logs it and the adapter returns no topics
RequestFails(a) ==
    /\ a \in {"reddit", "producthunt"}
    /\ CanStart(a) \/ (pc = "gather" /\ task[a] = "waiting")
    /\ Finish(a, "returned", <<>>)
    /\ caught' = caught \cup {a}

RedditReturns ==
    /\ pc = "gather"
    /\ task["reddit"] = "waiting"
    /\ \E response \in RedditResponses :
          /\ Finish("reddit", "returned", ScrapeReddit(rng, response))
          /\ caught' = IF RedditRaises(response) THEN caught \cup {"reddit"} ELSE caught

ProductHuntReturns ==
    /\ pc = "gather"
    /\ task["producthunt"] = "waiting"
    /\ \E response \in ProductHuntResponses :
          /\ Finish("producthunt", "returned", ScrapeProductHunt(rng, response))
          /\ caught' = IF ProductHuntRaises(response)
                        THEN caught \cup {"producthunt"} ELSE caught

\* no await inside: runs to its return statement in one go
TwitterReturns ==
    /\ CanStart("twitter")
    /\ Finish("twitter", "returned", ScrapeTwitter(rng))
    /\ UNCHANGED caught

GoogleReturns ==
    /\ CanStart("google_trends")
    /\ Finish("google_trends", "returned", ScrapeGoogle(rng))
    /\ UNCHANGED caught

\* an exception leaves the adapter coroutine (one the adapter's own
\* `except Exception` does not stop, or an adapter replaced by a stub that
\* throws): gather keeps it as that task's outcome
AdapterRaises(a) ==
    /\ CanStart(a) \/ (pc = "gather" /\ task[a] = "waiting")
    /\ Finish(a, "raised", <<>>)
    /\ UNCHANGED caught

\* line 97: `results = await asyncio.gather(...)` resumes
AwaitGather ==
    /\ pc = "gather"
    /\ GatherReady
    /\ IF GatherReturnExceptions \/ \A a \in AdapterSet : task[a] = "returned"
       THEN pc' = "collect"
       ELSE pc' = "failed"
    /\ UNCHANGED <<task, results, out_of_order, rng, heap, all_topics, unique_topics,
                   scored_topics, final_topics, xs, ys, zs, calls, caught, synthVars, orchVars, sideVars>>

\* lines 99-109
Collect ==
    /\ pc = "collect"
    /\ all_topics' = CollectTopics(results, 1)
    /\ pc' = "dedup"
    /\ UNCHANGED <<task, results, out_of_order, rng, heap, unique_topics,
                   scored_topics, final_topics, xs, ys, zs, calls, caught, synthVars, orchVars, sideVars>>

\* line 112
Deduplicate ==
    /\ pc = "dedup"
    /\ unique_topics' = DeduplicateTopics(heap, all_topics)
    /\ pc' = "score"
    /\ UNCHANGED <<task, results, out_of_order, rng, heap, all_topics,
                   scored_topics, final_topics, xs, ys, zs, calls, caught, synthVars, orchVars, sideVars>>

\* line 115
Score ==
    /\ pc = "score"
    /\ heap' = CalculateRelevanceScores(heap, unique_topics)
    /\ scored_topics' = unique_topics
    /\ pc' = "rank"
    /\ UNCHANGED <<task, results, out_of_order, rng, all_topics, unique_topics,
                   final_topics, xs, ys, zs, calls, caught, synthVars, orchVars, sideVars>>

\* lines 118-121
Rank ==
    /\ pc = "rank"
    /\ final_topics' = RankTopics(heap, scored_topics)
    /\ pc' = "done"
    /\ UNCHANGED <<task, results, out_of_order, rng, heap, all_topics,
                   unique_topics, scored_topics, xs, ys, zs, calls, caught, synthVars, orchVars, sideVars>>

Init ==
    /\ pc = "start"
    /\ task = [a \in AdapterSet |-> "idle"]
    /\ results = [i \in DOMAIN Adapters |-> NoResult]
    /\ out_of_order = FALSE
    /\ rng \in 0..MaxSeed
    /\ heap = [a \in AdapterSet |-> <<>>]
    /\ all_topics = <<>>
    /\ unique_topics = <<>>
    /\ scored_topics = <<>>
    /\ final_topics = <<>>
    /\ xs = <<>>
    /\ ys = <<>>
    /\ zs = <<>>
    /\ calls = <<>>
    /\ caught = {}
    /\ SynthIdle
    /\ OrchIdle
    /\ SideIdle

(***************************************************************************)
(* _deduplicate_topics and _calculate_relevance_scores called on their own *)
(***************************************************************************)
\* candidate dicts of the shape the adapters build
Candidate(topic, score, source) ==
    [topic |-> topic, relevance_score |-> score * Scale, source |-> source,
     context |-> topic, content_angle |-> "SaaS growth strategy"]

DedupPool ==
    << Candidate("AI SaaS tools", 80, "twitter"),
       Candidate("AI Saas Tooling", 85, "google_trends"),
       Candidate("Saas Tools Roundup", 31, "reddit"),
       Candidate("Tools Roundup Weekly", 12, "reddit"),
       Candidate("Roundup Weekly Digest", 44, "producthunt"),
       Candidate("Saas", 50, "reddit") >>

\* longest list handed to _deduplicate_topics
MaxLen == 4

RECURSIVE ListsUpTo(_, _)
\* the lists of at most n elements of S
ListsUpTo(S, n) ==
    IF n = 0 THEN {<<>>}
    ELSE LET shorter == ListsUpTo(S, n - 1)
         IN  shorter \cup {Append(l, x) : l \in shorter, x \in S}

DedupInit ==
    /\ pc = "dedup_first"
    /\ task = [a \in AdapterSet |-> "idle"]
    /\ results = [i \in DOMAIN Adapters |-> NoResult]
    /\ out_of_order = FALSE
    /\ rng = 0
    /\ heap = [a \in AdapterSet |-> IF a = "reddit" THEN DedupPool ELSE <<>>]
    /\ all_topics = <<>>
    /\ unique_topics = <<>>
    /\ scored_topics = <<>>
    /\ final_topics = <<>>
    /\ xs \in ListsUpTo(Range(RefsOf(heap, "reddit")), MaxLen)
    /\ ys = <<>>
    /\ zs = <<>>
    /\ calls = <<>>
    /\ caught = {}
    /\ SynthIdle
    /\ OrchIdle
    /\ SideIdle

\* ys = _deduplicate_topics(xs)
DedupFirst ==
    /\ pc = "dedup_first"
    /\ ys' = DeduplicateTopics(heap, xs)
    /\ pc' = "dedup_second"
    /\ UNCHANGED <<task, results, out_of_order, rng, heap, all_topics, unique_topics,
                   scored_topics, final_topics, xs, zs, calls, caught, synthVars, orchVars, sideVars>>

\* zs = _deduplicate_topics(ys)
DedupSecond ==
    /\ pc = "dedup_second"
    /\ zs' = DeduplicateTopics(heap, ys)
    /\ pc' = "dedup_end"
    /\ UNCHANGED <<task, results, out_of_order, rng, heap, all_topics, unique_topics,
                   scored_topics, final_topics, xs, ys, calls, caught, synthVars, orchVars, sideVars>>

DedupNext == DedupFirst \/ DedupSecond

DedupSpec == DedupInit /\ [][DedupNext]_vars

\* topics at the 60% mark: the third and fourth share 3 of their 5 words,
\* the first and second 2 of their 3, the fifth shares 2 of 5 with the third;
\* and two candidates with an empty topic
BoundaryPool ==
    << Candidate("AI SaaS Tools", 80, "twitter"),
       Candidate("AI Saas Tooling", 85, "google_trends"),
       Candidate("Best landing page design tips", 40, "reddit"),
       Candidate("Landing page design for founders", 30, "reddit"),
       Candidate("Pricing page teardown for founders", 55, "producthunt"),
       Candidate("", 20, "reddit"),
       Candidate("", 60, "twitter") >>

\* longest list of BoundaryPool topics handed to _deduplicate_topics
MaxBoundary == 3

BoundaryInit ==
    /\ pc = "dedup_first"
    /\ task = [a \in AdapterSet |-> "idle"]
    /\ results = [i \in DOMAIN Adapters |-> NoResult]
    /\ out_of_order = FALSE
    /\ rng = 0
    /\ heap = [a \in AdapterSet |-> IF a = "reddit" THEN BoundaryPool ELSE <<>>]
    /\ all_topics = <<>>
    /\ unique_topics = <<>>
    /\ scored_topics = <<>>
    /\ final_topics = <<>>
    /\ xs \in ListsUpTo(Range(RefsOf(heap, "reddit")), MaxBoundary)
    /\ ys = <<>>
    /\ zs = <<>>
    /\ calls = <<>>
    /\ caught = {}
    /\ SynthIdle
    /\ OrchIdle
    /\ SideIdle

BoundarySpec == BoundaryInit /\ [][DedupNext]_vars

\* words the texts handed to _extract_topic_from_text are made of: a stop
\* word, a two-letter word, tech keywords, a word that holds one inside
\* ("app" in "happy"), words with punctuation
TextWords == <<"The", "AI", "SaaS", "pricing", "Happy", "launch!", "API-first">>

\* most words in a text
MaxWords == 4

\* a text of more than 50 characters without a meaningful word
LongBlankText == "Is it on, or is it in? To be or to do: up to us, as we do at 9!"

Texts == {Join(ws) : ws \in ListsUpTo(Range(TextWords), MaxWords)} \cup {LongBlankText}

\* before a call of _extract_topic_from_text(xs)
NormalizerInit ==
    /\ pc = "normalizer"
    /\ task = [a \in AdapterSet |-> "idle"]
    /\ results = [i \in DOMAIN Adapters |-> NoResult]
    /\ out_of_order = FALSE
    /\ rng = 0
    /\ heap = [a \in AdapterSet |-> <<>>]
    /\ all_topics = <<>>
    /\ unique_topics = <<>>
    /\ scored_topics = <<>>
    /\ final_topics = <<>>
    /\ xs \in Texts
    /\ ys = ""
    /\ zs = <<>>
    /\ calls = <<>>
    /\ caught = {}
    /\ SynthIdle
    /\ OrchIdle
    /\ SideIdle

\* ys = _extract_topic_from_text(xs)
CallNormalizer ==
    /\ pc = "normalizer"
    /\ ys' = ExtractTopic(xs)
    /\ pc' = "normalizer_done"
    /\ UNCHANGED <<task, results, out_of_order, rng, heap, all_topics, unique_topics,
                   scored_topics, final_topics, xs, zs, calls, caught, synthVars, orchVars, sideVars>>

NormalizerNext == CallNormalizer

NormalizerSpec == NormalizerInit /\ [][NormalizerNext]_vars

\* number of calls of the scorer on the same candidate
MaxCalls == 3

\* what the adapters return for the whole feed and front page
FullHeap(r) ==
    [a \in AdapterSet |->
        CASE a = "reddit" -> ScrapeReddit(r, [status |-> 200, posts |-> RedditFeed])
          [] a = "producthunt" ->
                ScrapeProductHunt(r, [status |-> 200, cards |-> ProductHuntCards])
          [] a = "twitter" -> ScrapeTwitter(r)
          [] OTHER -> ScrapeGoogle(r)]

ScorerInit ==
    /\ pc = "scorer"
    /\ task = [a \in AdapterSet |-> "idle"]
    /\ results = [i \in DOMAIN Adapters |-> NoResult]
    /\ out_of_order = FALSE
    /\ rng \in 0..MaxSeed
    /\ heap = FullHeap(rng)
    /\ all_topics = <<>>
    /\ unique_topics = <<>>
    /\ scored_topics = <<>>
    /\ final_topics = <<>>
    /\ \E a \in AdapterSet : \E k \in 1..Len(heap[a]) : xs = << <<a, k>> >>
    /\ ys = <<>>
    /\ zs = <<>>
    /\ calls = <<>>
    /\ caught = {}
    /\ SynthIdle
    /\ OrchIdle
    /\ SideIdle

\* ys = _calculate_relevance_scores(xs), then ys[0]['relevance_score'] is read
CallScorer ==
    /\ pc = "scorer"
    /\ Len(calls) < MaxCalls
    /\ heap' = CalculateRelevanceScores(heap, xs)
    /\ ys' = xs
    /\ calls' = Append(calls, Deref(heap', xs[1]).relevance_score)
    /\ UNCHANGED <<pc, task, results, out_of_order, rng, all_topics, unique_topics,
                   scored_topics, final_topics, xs, zs, caught, synthVars, orchVars, sideVars>>

ScorerNext == CallScorer

ScorerSpec == ScorerInit /\ [][ScorerNext]_vars

\* a candidate as its adapter builds it from the score the source reports:
\* _scrape_reddit_saas takes a tenth of the post's score, capped at 100, and
\* keeps the post's score under raw_score; the other adapters report a score
\* of 0..100 and store it as relevance_score, and raw_score records it here
ReportedCandidate(topic, raw_score, source) ==
    [topic |-> topic,
     relevance_score |-> IF source = "reddit"
                         THEN Min((raw_score * Scale) \div 10, 100 * Scale)
                         ELSE raw_score * Scale,
     source |-> source, context |-> topic, content_angle |-> "SaaS growth strategy",
     raw_score |-> raw_score]

\* scores the sources report: post scores of any size and sign on reddit,
\* 0..100 elsewhere
RawScores(source) ==
    IF source = "reddit" THEN {0 - 35, 0, 120, 420, 1500} ELSE {0, 12, 55, 88, 100}

\* topics matching 0, 1, 2 and 3 of the craefto_keywords
BoostTopics ==
    {"Customer interviews", "SaaS pricing models", "Framer templates", "Startup design growth"}

\* the sources of the candidates scored: the four adapters' and one that
\* source_multipliers does not list
PairSources == AdapterSet \cup {"newsletter"}

\* the heap slot that holds the candidates of a source
SlotOf(source) == IF source \in AdapterSet THEN source ELSE "twitter"

\* two candidates of one source, scored by one call
PairInit ==
    /\ pc = "scorer"
    /\ task = [a \in AdapterSet |-> "idle"]
    /\ results = [i \in DOMAIN Adapters |-> NoResult]
    /\ out_of_order = FALSE
    /\ rng = 0
    /\ \E source \in PairSources :
       \E t1, t2 \in BoostTopics :
       \E r1, r2 \in RawScores(source) :
          heap = [a \in AdapterSet |->
                    IF a = SlotOf(source)
                    THEN <<ReportedCandidate(t1, r1, source), ReportedCandidate(t2, r2, source)>>
                    ELSE <<>>]
    /\ all_topics = <<>>
    /\ unique_topics = <<>>
    /\ scored_topics = <<>>
    /\ final_topics = <<>>
    /\ \E a \in AdapterSet : Len(heap[a]) = 2 /\ xs = RefsOf(heap, a)
    /\ ys = <<>>
    /\ zs = <<>>
    /\ calls = <<>>
    /\ caught = {}
    /\ SynthIdle
    /\ OrchIdle
    /\ SideIdle

PairSpec == PairInit /\ [][ScorerNext]_vars

Next ==
    \/ StartGather
    \/ \E a \in AdapterSet : Suspend(a)
    \/ \E a \in AdapterSet : RequestFails(a)
    \/ RedditReturns
    \/ ProductHuntReturns
    \/ TwitterReturns
    \/ GoogleReturns
    \/ \E a \in AdapterSet : AdapterRaises(a)
    \/ AwaitGather
    \/ Collect
    \/ Deduplicate
    \/ Score
    \/ Rank

Spec == Init /\ [][Next]_vars

\* some step of the run is possible: a step of find_trending_topics itself,
\* or of an adapter that has not finished
CanAdvance ==
    \/ pc \in {"start", "collect", "dedup", "score", "rank"}
    \/ pc = "gather" /\ (GatherReady \/ \E a \in AdapterSet : ~Finished(a))

\* the control part of a step: every step of Next changes pc or task
Advance ==
    /\ CanAdvance
    /\ \E p \in {"gather", "collect", "dedup", "score", "rank", "done", "failed"} : pc' = p
    /\ \E t \in [AdapterSet -> {"pending", "waiting", "returned", "raised"}] : task' = t

\* the event loop keeps running whatever is ready, and every request ends
\* (each has a timeout): as long as a step is possible, one is taken
FairSpec == Spec /\ WF_<<pc, task>>(Advance)

(***************************************************************************)
(* generate_content_ideas                                                  *)
(***************************************************************************)
TopN == 10

IdeaThreshold == 70

TopIdeas == 5

ContextCap == 200

\* title_templates of _create_content_idea: the text before and after the
\* topic (the emoji that open the social templates are left out)
title_templates(format_type) ==
    CASE format_type = "blog" ->
            << <<"How ", " is Transforming SaaS Design in 2024">>,
               <<"The Complete Guide to ", " for SaaS Founders">>,
               <<"", ": What Every Designer Needs to Know">>,
               <<"Building Better SaaS Products with ", "">>,
               <<"Why ", " Matters for Your SaaS Growth Strategy">> >>
      [] format_type = "social" ->
            << <<"", " is trending! Here's why it matters for SaaS:">>,
               <<"Quick tip: How to leverage ", " in your design process">>,
               <<"", " breakdown - what you need to know">>,
               <<"", " insights that will boost your conversion rates">> >>
      [] OTHER ->
            << <<"Weekly Insight: ", " Impact on SaaS">>,
               <<"Trend Alert: ", " Opportunities">>,
               <<"Designer's Brief: ", " Essentials">> >>

\* format_priority of _create_content_idea, in tenths
FormatPriority(format_type) ==
    CASE format_type = "social" -> 8
      [] format_type = "email" -> 9
      [] OTHER -> 10

\* ResearchAgent._estimate_engagement; relevance in units of 1/Scale
EstimateEngagement(r, format_type, relevance, k) ==
    IF 10 * relevance > 7 * Scale THEN Choice(r, <<"High", "Very High">>, k)
    ELSE IF 10 * relevance > 4 * Scale THEN Choice(r, <<"Medium", "High">>, k)
    ELSE "Medium"

\* ResearchAgent._determine_target_audience
DetermineTargetAudience(topic) ==
    LET t == Lower(topic)
    IN  IF AnyIn(<<"founder", "startup", "business">>, t)
        THEN <<"SaaS founders", "Startup founders">>
        ELSE IF AnyIn(<<"design", "ui", "ux">>, t)
        THEN <<"Product designers", "UI/UX designers">>
        ELSE IF AnyIn(<<"marketing", "growth", "conversion">>, t)
        THEN <<"Product marketers", "Growth teams">>
        ELSE <<"SaaS founders", "Product designers">>

\* ResearchAgent._map_to_content_pillars
MapToContentPillars(topic) ==
    LET t == Lower(topic)
        pillars ==
            (IF AnyIn(<<"framer", "template">>, t) THEN <<"Framer tutorials">> ELSE <<>>)
            \o (IF AnyIn(<<"design", "ui", "ux">>, t)
                THEN <<"SaaS design patterns", "Web Design trends">> ELSE <<>>)
            \o (IF AnyIn(<<"conversion", "optimization", "cro">>, t)
                THEN <<"CRO tips">> ELSE <<>>)
            \o (IF AnyIn(<<"template", "component">>, t)
                THEN <<"Template showcases">> ELSE <<>>)
    IN  IF pillars # <<>> THEN pillars ELSE <<"SaaS design patterns">>

\* ResearchAgent._generate_seo_keywords
GenerateSeoKeywords(topic) ==
    LET t == Lower(topic)
    IN  <<t, t \o " saas design", t \o " framer templates">>

\* ResearchAgent._generate_cta
GenerateCta(r, format_type, k) ==
    CASE format_type = "social" ->
            Choice(r, <<"Follow for more SaaS design tips", "Check out our latest templates",
                        "DM for custom design work">>, k)
      [] format_type = "email" ->
            Choice(r, <<"Explore our template library", "Schedule a design review",
                        "Join our design community">>, k)
      [] OTHER ->
            Choice(r, <<"Download our free Framer template collection",
                        "Get started with our SaaS design system",
                        "Book a free design consultation">>, k)

\* an idea dict before generate_content_ideas gives it an id
NoId == <<>>

\* ResearchAgent._create_content_idea; k is the number of ideas created before
CreateContentIdea(r, topic, context, source, format_type, k) ==
    LET template == Choice(r, title_templates(format_type), k)
        topic_relevance == CraeftoRelevance(topic)
        priority_score == ((topic_relevance * 100) * FormatPriority(format_type)) \div 10
    IN  [title |-> template[1] \o topic \o template[2],
         topic |-> topic,
         format |-> format_type,
         content_angle |-> GenerateCraeftoAngle(r, topic, k),
         source_trend |-> source,
         priority_score |-> Round2(priority_score),
         context |-> Prefix(context, ContextCap),
         estimated_engagement |-> EstimateEngagement(r, format_type, topic_relevance, k),
         target_audience |-> DetermineTargetAudience(topic),
         content_pillars |-> MapToContentPillars(topic),
         seo_keywords |-> GenerateSeoKeywords(topic),
         call_to_action |-> GenerateCta(r, format_type, k),
         id |-> NoId,
         generated_at |-> NoId]

\* FormatsFor going wrong: the threshold is taken inclusive
FormatsForInclusive(trend) ==
    IF trend.relevance_score >= IdeaThreshold * Scale
    THEN <<"blog", "social", "email">>
    ELSE <<"blog">>

\* generate_content_ideas: `formats` for one trend
FormatsFor(trend) ==
    IF trend.relevance_score > IdeaThreshold * Scale
    THEN <<"blog", "social", "email">>
    ELSE <<"blog">>

RECURSIVE IdeasLoopLastFormat(_, _, _, _, _)
\* IdeasLoop going wrong: the append stands after the loop over formats, so
\* only the idea of the last format is kept
IdeasLoopLastFormat(r, h, trends, i, created) ==
    IF i > Len(trends) THEN created
    ELSE LET trend == Deref(h, trends[i])
             formats == FormatsFor(trend)
         IN  IdeasLoopLastFormat(r, h, trends, i + 1,
                Append(created,
                       CreateContentIdea(r, trend.topic, trend.context, trend.source,
                                         formats[Len(formats)], Len(created))))

RECURSIVE IdeasLoop(_, _, _, _, _)
\* generate_content_ideas: the loop over trending_data[:10]; created holds
\* the idea dicts built so far
IdeasLoop(r, h, trends, i, created) ==
    IF i > Len(trends) THEN created
    ELSE LET trend == Deref(h, trends[i])
             formats == FormatsFor(trend)
             new == [f \in 1..Len(formats) |->
                       CreateContentIdea(r, trend.topic, trend.context, trend.source,
                                         formats[f], Len(created) + f - 1)]
         IN  IdeasLoop(r, h, trends, i + 1, created \o new)

RECURSIVE InsertByPriorityAscending(_, _, _)
\* InsertByPriority going wrong: the sort runs without reverse=True
InsertByPriorityAscending(store, sorted, x) ==
    IF sorted = <<>> THEN <<x>>
    ELSE IF store[Head(sorted)].priority_score <= store[x].priority_score
    THEN <<Head(sorted)>> \o InsertByPriorityAscending(store, Tail(sorted), x)
    ELSE <<x>> \o sorted

RECURSIVE InsertByPriority(_, _, _)
\* one step of the stable descending sort by priority_score
InsertByPriority(store, sorted, x) ==
    IF sorted = <<>> THEN <<x>>
    ELSE IF store[Head(sorted)].priority_score >= store[x].priority_score
    THEN <<Head(sorted)>> \o InsertByPriority(store, Tail(sorted), x)
    ELSE <<x>> \o sorted

RECURSIVE SortByPriority(_, _)
\* sorted(content_ideas, key=lambda x: x['priority_score'], reverse=True)
SortByPriority(store, list) ==
    IF list = <<>> THEN <<>>
    ELSE InsertByPriority(store, SortByPriority(store, SubSeq(list, 1, Len(list) - 1)),
                          list[Len(list)])

\* `sorted(...)[:5]`
PrioritizeIdeas(store, list) == Take(SortByPriority(store, list), TopIdeas)

\* position of an idea in a list of ideas
RankOf(list, x) == CHOOSE i \in DOMAIN list : list[i] = x

\* StampIdeas going wrong: the sequence number is the one the idea had when
\* it was created
StampIdeasByCreation(store, selected, now, k) ==
    [x \in DOMAIN store |->
        IF x \in Range(selected)
        THEN LET t == IF RankOf(selected, x) <= k THEN now ELSE now + 1
             IN  [store[x] EXCEPT !.id = <<t, x - 1>>, !.generated_at = <<t>>]
        ELSE store[x]]

\* generate_content_ideas: the loop over enumerate(prioritized_ideas); the
\* first k passes read the clock at `now`, the others a second later
StampIdeas(store, selected, now, k) ==
    [x \in DOMAIN store |->
        IF x \in Range(selected)
        THEN LET i == RankOf(selected, x)
                 t == IF i <= k THEN now ELSE now + 1
             IN  [store[x] EXCEPT !.id = <<t, i - 1>>, !.generated_at = <<t>>]
        ELSE store[x]]

\* an element of trending_data the loop can work on: a dict (`trend.get`)
\* with a topic
IsTopicRecord(x) == "topic" \in DOMAIN x

\* the first of the trends on which the loop raises, 0 if there is none
FirstBroken(h, trends) ==
    LET broken == {i \in DOMAIN trends : ~IsTopicRecord(Deref(h, trends[i]))}
    IN  IF broken = {} THEN 0 ELSE CHOOSE i \in broken : \A j \in broken : i <= j

\* lines 365-382: the ideas of the first ten trends are created.  When the
\* loop raises, the `except Exception` of line 394 logs it and line 397,
\* `return prioritized_ideas`, reads a name that was never bound: the call
\* ends in UnboundLocalError
CreateIdeas ==
    /\ pc = "ideas_start"
    /\ LET considered == Take(trending_data, TopN)
           broken == FirstBroken(heap, considered)
       IN  IF broken = 0
           THEN /\ ideas' = IdeasLoop(rng, heap, considered, 1, <<>>)
                /\ pc' = "ideas_sort"
           ELSE /\ ideas' = IdeasLoop(rng, heap, Take(considered, broken - 1), 1, <<>>)
                /\ pc' = "ideas_raised"
    /\ content_ideas' = [i \in 1..Len(ideas') |-> i]
    /\ UNCHANGED <<task, results, out_of_order, rng, heap, all_topics, unique_topics,
                   scored_topics, final_topics, xs, ys, zs, calls, caught,
                   trending_data, prioritized_ideas, clock, orchVars, sideVars>>

\* line 385
SelectIdeas ==
    /\ pc = "ideas_sort"
    /\ prioritized_ideas' = PrioritizeIdeas(ideas, content_ideas)
    /\ pc' = "ideas_ids"
    /\ UNCHANGED <<task, results, out_of_order, rng, heap, all_topics, unique_topics,
                   scored_topics, final_topics, xs, ys, zs, calls, caught,
                   trending_data, ideas, content_ideas, clock, orchVars, sideVars>>

\* lines 388-397: ids and timestamps, then `return prioritized_ideas`
AssignIds ==
    /\ pc = "ideas_ids"
    /\ \E k \in 0..Len(prioritized_ideas) :
          /\ ideas' = StampIdeas(ideas, prioritized_ideas, clock, k)
          /\ clock' = IF k < Len(prioritized_ideas) THEN clock + 1 ELSE clock
    /\ pc' = "ideas_done"
    /\ UNCHANGED <<task, results, out_of_order, rng, heap, all_topics, unique_topics,
                   scored_topics, final_topics, xs, ys, zs, calls, caught,
                   trending_data, content_ideas, prioritized_ideas, orchVars, sideVars>>

\* scored topics of the shape find_trending_topics returns
SynthPool ==
    << Candidate("Framer templates for startup design", 75, "twitter"),
       Candidate("SaaS conversion optimization", 50, "reddit"),
       Candidate("No-code marketing growth", 70, "google_trends"),
       Candidate("Landing page design", 88, "producthunt"),
       Candidate("Customer interviews", 91, "reddit") >>

\* longest list of pool topics handed to generate_content_ideas
MaxTrends == 3

\* more topics than generate_content_ideas looks at
LongTrends(h) == RefsOf(h, "reddit") \o RefsOf(h, "twitter")

SynthInit ==
    /\ pc = "ideas_start"
    /\ task = [a \in AdapterSet |-> "idle"]
    /\ results = [i \in DOMAIN Adapters |-> NoResult]
    /\ out_of_order = FALSE
    /\ rng \in 0..MaxSeed
    /\ heap = [a \in AdapterSet |->
                 CASE a = "reddit" -> SynthPool
                   [] a = "twitter" -> ScrapeTwitter(rng)
                   [] OTHER -> <<>>]
    /\ all_topics = <<>>
    /\ unique_topics = <<>>
    /\ scored_topics = <<>>
    /\ final_topics = <<>>
    /\ xs = <<>>
    /\ ys = <<>>
    /\ zs = <<>>
    /\ calls = <<>>
    /\ caught = {}
    /\ trending_data \in ListsUpTo(Range(RefsOf(heap, "reddit")), MaxTrends)
                            \cup {LongTrends(heap)}
    /\ ideas = <<>>
    /\ content_ideas = <<>>
    /\ prioritized_ideas = <<>>
    /\ clock = 0
    /\ OrchIdle
    /\ SideIdle

SynthNext == CreateIdeas \/ SelectIdeas \/ AssignIds

SynthSpec == SynthInit /\ [][SynthNext]_vars

\* what stands in trending_data where a topic dict should: a bare string
BrokenTrends == << [text |-> "SaaS pricing models"] >>

\* ten topics, then the broken element
BrokenEleventh(h) == Take(LongTrends(h), TopN) \o RefsOf(h, "producthunt")

\* generate_content_ideas is called with lists that may hold a broken element
FaultyInit ==
    /\ pc = "ideas_start"
    /\ task = [a \in AdapterSet |-> "idle"]
    /\ results = [i \in DOMAIN Adapters |-> NoResult]
    /\ out_of_order = FALSE
    /\ rng \in 0..MaxSeed
    /\ heap = [a \in AdapterSet |->
                 CASE a = "reddit" -> SynthPool
                   [] a = "twitter" -> ScrapeTwitter(rng)
                   [] a = "producthunt" -> BrokenTrends
                   [] OTHER -> <<>>]
    /\ all_topics = <<>>
    /\ unique_topics = <<>>
    /\ scored_topics = <<>>
    /\ final_topics = <<>>
    /\ xs = <<>>
    /\ ys = <<>>
    /\ zs = <<>>
    /\ calls = <<>>
    /\ caught = {}
    /\ trending_data \in ListsUpTo(Range(RefsOf(heap, "reddit")) \cup
                                   Range(RefsOf(heap, "producthunt")), MaxTrends)
                            \cup {BrokenEleventh(heap)}
    /\ ideas = <<>>
    /\ content_ideas = <<>>
    /\ prioritized_ideas = <<>>
    /\ clock = 0
    /\ OrchIdle
    /\ SideIdle

FaultySpec == FaultyInit /\ [][SynthNext]_vars

(***************************************************************************)
(* CraeftoOrchestrator: the workflow operations                            *)
(***************************************************************************)
\* insights handed on when no topic is given: `insights[:5]`
TopInsights == 5

\* insights handed on when a topic is given: `[:3]`
TopicInsights == 3

\* ideas returned by full_content_pipeline: `content_ideas[:3]`
ReturnedIdeas == 3

\* latest clock reading at which a workflow operation is started
MaxClock == 2

\* topic_hint / topic arguments: none, and hints matching all, two, one and
\* none of the insights
TopicHints == {"", "SaaS", "tools", "pricing", "webinar"}

Hypotheses == {"Founders want launch-ready templates"}

ResearchWorkflows == {"manual_content_sprint", "full_content_pipeline"}

\* `topic_hint.lower() in insight["topic"].lower() or ... in insight["context"].lower()`
MatchesHint(h, topic_hint, ref) ==
    \/ Contains(Lower(Deref(h, ref).topic), Lower(topic_hint))
    \/ Contains(Lower(Deref(h, ref).context), Lower(topic_hint))

\* Picks going wrong: every insight is handed to generate_content_ideas
PicksWholeList(h, kind, topic, insights) == insights

\* the argument of generate_content_ideas: manual_content_sprint lines
\* 252-265, full_content_pipeline lines 514-520
Picks(h, kind, topic, insights) ==
    IF topic = "" THEN Take(insights, TopInsights)
    ELSE IF kind = "manual_content_sprint"
    THEN LET filtered_insights ==
                 SelectSeq(insights, LAMBDA ref : MatchesHint(h, topic, ref))
         IN  IF filtered_insights # <<>> THEN Take(filtered_insights, TopicInsights)
             ELSE Take(insights, TopicInsights)
    ELSE Take(insights, TopicInsights)

\* PublisherCalls going wrong: the pipeline posts what it produced
PublisherCallsAutoPost(kind) == IF kind = "full_content_pipeline" THEN 1 ELSE 0

\* calls of self.publisher made by a workflow operation: there is none in
\* any of the four
PublisherCalls(kind) == 0

\* what manual_content_sprint and full_content_pipeline return when nothing raised
WorkflowResult(kind, topic, insights, picks, store, idea_list) ==
    IF kind = "manual_content_sprint"
    THEN [status |-> "ready_for_manual_publish",
          research_insights |-> picks,
          selected_idea |->
              IF idea_list # <<>>
              THEN store[idea_list[1]]
              ELSE [topic |-> IF topic # "" THEN topic ELSE "SaaS Growth Strategies",
                    angle |-> "Fresh perspective on digital craftsmanship"],
          content_ideas |-> Take(idea_list, 1)]
    ELSE [status |-> "ready_for_review",
          topic |-> IF topic # "" THEN topic
                    ELSE IF idea_list # <<>> THEN store[idea_list[1]].topic
                    ELSE "SaaS Growth Strategies",
          research_insights |-> Take(insights, TopInsights),
          content_ideas |-> Take(idea_list, ReturnedIdeas)]

\* the `except Exception` branch of a workflow operation
FailedResult == [status |-> "failed"]

\* manual_content_sprint / full_content_pipeline is called and reaches
\* `await self.research.find_trending_topics()`
StartResearch(kind, topic) ==
    /\ pc = "idle"
    /\ clock < MaxClock
    /\ workflow' = [kind |-> kind, topic |-> topic]
    /\ result' = [status |-> "none"]
    /\ pc' = "start"
    /\ rng' \in 0..MaxSeed
    /\ task' = [a \in AdapterSet |-> "idle"]
    /\ results' = [i \in DOMAIN Adapters |-> NoResult]
    /\ out_of_order' = FALSE
    /\ heap' = [a \in AdapterSet |-> <<>>]
    /\ all_topics' = <<>>
    /\ unique_topics' = <<>>
    /\ scored_topics' = <<>>
    /\ final_topics' = <<>>
    /\ caught' = {}
    /\ trending_data' = <<>>
    /\ ideas' = <<>>
    /\ content_ideas' = <<>>
    /\ prioritized_ideas' = <<>>
    /\ UNCHANGED <<xs, ys, zs, calls, clock, safe_mode, publish_calls, sideVars>>

\* the orchestrator builds ResearchAgent() and never enters it, so
\* self.session is None: `self.session.get(url)` raises AttributeError inside
\* the adapter's try, before any await, and the adapter returns []
SessionMissing(a) ==
    /\ CanStart(a)
    /\ RequestFails(a)

\* find_trending_topics has returned: the picks go to generate_content_ideas
PickInsights ==
    /\ pc = "done"
    /\ workflow.kind \in ResearchWorkflows
    /\ trending_data' = Picks(heap, workflow.kind, workflow.topic, final_topics)
    /\ pc' = "ideas_start"
    /\ UNCHANGED <<task, results, out_of_order, rng, heap, all_topics, unique_topics,
                   scored_topics, final_topics, xs, ys, zs, calls, caught,
                   ideas, content_ideas, prioritized_ideas, clock, orchVars, sideVars>>

\* generation, visuals, QA and packaging went through: the payload is returned
ReturnPackage ==
    /\ pc = "ideas_done"
    /\ workflow.kind \in ResearchWorkflows
    /\ result' = WorkflowResult(workflow.kind, workflow.topic, final_topics,
                                trending_data, ideas, prioritized_ideas)
    /\ publish_calls' = publish_calls + PublisherCalls(workflow.kind)
    /\ workflow' = NoWorkflow
    /\ pc' = "idle"
    /\ UNCHANGED <<task, results, out_of_order, rng, heap, all_topics, unique_topics,
                   scored_topics, final_topics, xs, ys, zs, calls, caught,
                   synthVars, safe_mode, sideVars>>

\* a generator, visual or QA call raised: the `except Exception` branch returns
WorkflowFails ==
    /\ pc = "ideas_done"
    /\ workflow.kind \in ResearchWorkflows
    /\ result' = FailedResult
    /\ workflow' = NoWorkflow
    /\ pc' = "idle"
    /\ UNCHANGED <<task, results, out_of_order, rng, heap, all_topics, unique_topics,
                   scored_topics, final_topics, xs, ys, zs, calls, caught,
                   synthVars, safe_mode, publish_calls, sideVars>>

\* gtm_test_cycle: variants and a test plan, no research
GtmTestCycle(hypothesis) ==
    /\ pc = "idle"
    /\ \/ /\ result' = [status |-> "ready_to_execute", hypothesis |-> hypothesis]
          /\ publish_calls' = publish_calls + PublisherCalls("gtm_test_cycle")
       \/ /\ result' = FailedResult
          /\ UNCHANGED publish_calls
    /\ UNCHANGED <<pc, task, results, out_of_order, rng, heap, all_topics, unique_topics,
                   scored_topics, final_topics, xs, ys, zs, calls, caught,
                   synthVars, workflow, safe_mode, sideVars>>

\* performance_optimization_cycle: the plan it returns has no "status" key
\* (status is left empty here)
PerformanceOptimizationCycle ==
    /\ pc = "idle"
    /\ \/ /\ result' = [status |-> "", cycle_id |-> "opt"]
          /\ publish_calls' = publish_calls + PublisherCalls("performance_optimization_cycle")
       \/ /\ result' = FailedResult
          /\ UNCHANGED publish_calls
    /\ UNCHANGED <<pc, task, results, out_of_order, rng, heap, all_topics, unique_topics,
                   scored_topics, final_topics, xs, ys, zs, calls, caught,
                   synthVars, workflow, safe_mode, sideVars>>

\* CraeftoOrchestrator.__init__
OrchInit ==
    /\ pc = "idle"
    /\ task = [a \in AdapterSet |-> "idle"]
    /\ results = [i \in DOMAIN Adapters |-> NoResult]
    /\ out_of_order = FALSE
    /\ rng \in 0..MaxSeed
    /\ heap = [a \in AdapterSet |-> <<>>]
    /\ all_topics = <<>>
    /\ unique_topics = <<>>
    /\ scored_topics = <<>>
    /\ final_topics = <<>>
    /\ xs = <<>>
    /\ ys = <<>>
    /\ zs = <<>>
    /\ calls = <<>>
    /\ caught = {}
    /\ SynthIdle
    /\ OrchIdle
    /\ SideIdle

OrchNext ==
    \/ \E kind \in ResearchWorkflows : \E topic \in TopicHints : StartResearch(kind, topic)
    \/ StartGather
    \/ \E a \in AdapterSet : SessionMissing(a)
    \/ TwitterReturns
    \/ GoogleReturns
    \/ AwaitGather
    \/ Collect
    \/ Deduplicate
    \/ Score
    \/ Rank
    \/ PickInsights
    \/ CreateIdeas
    \/ SelectIdeas
    \/ AssignIds
    \/ ReturnPackage
    \/ WorkflowFails
    \/ \E hypothesis \in Hypotheses : GtmTestCycle(hypothesis)
    \/ PerformanceOptimizationCycle

OrchSpec == OrchInit /\ [][OrchNext]_vars

(***************************************************************************)
(* Publisher: schedule_content and process_scheduled_content               *)
(***************************************************************************)
\* "max_attempts": 3
MaxAttempts == 3

\* the retry is rescheduled 5 minutes later: one tick of the clock
RetryDelay == 1

\* schedule entries created in a behaviour
MaxEntries == 2

\* process_scheduled_content calls that may be running at once
MaxProcs == 2

\* last clock reading
MaxTime == 4

Procs == 1..MaxProcs

\* content with a content_id (cross-posted), without one (published
\* directly), and content that is no container (`"content_id" in content`
\* raises TypeError)
ContentKinds == {"content_id", "direct", "broken"}

\* synthVars without the clock
synthLists == <<trending_data, ideas, content_ideas, prioritized_ideas>>

NotProcessing == [pc |-> "idle", ready_items |-> <<>>, i |-> 1]

\* list.remove(x): the first occurrence goes
RemoveFirst(list, x) ==
    LET k == CHOOSE j \in DOMAIN list : list[j] = x /\ \A m \in 1..(j - 1) : list[m] # x
    IN  SubSeq(list, 1, k - 1) \o SubSeq(list, k + 1, Len(list))

\* ShouldRetry going wrong: one attempt too many is allowed
ShouldRetryInclusive(entry) == entry.attempts <= entry.max_attempts

\* `if item["attempts"] < item["max_attempts"]`
ShouldRetry(entry) == entry.attempts < entry.max_attempts

\* lines 757-773: the entry after its publish attempt returned; tried and
\* published count the attempts and the successes (bookkeeping, not in the code)
AfterAttempt(entry, success, now) ==
    IF success
    THEN [entry EXCEPT !.status = "published", !.published = @ + 1]
    ELSE LET failed == [entry EXCEPT !.status = "failed", !.attempts = @ + 1]
         IN  IF ShouldRetry(failed)
             THEN [failed EXCEPT !.publish_time = now + RetryDelay, !.status = "scheduled"]
             ELSE failed

\* schedule_content with a publish_time in the future
ScheduleContent(kind) ==
    /\ Len(schedule_entries) < MaxEntries
    /\ schedule_entries' =
          Append(schedule_entries,
                 [content |-> kind, publish_time |-> clock + 1, status |-> "scheduled",
                  attempts |-> 0, max_attempts |-> MaxAttempts,
                  tried |-> 0, published |-> 0])
    /\ publishing_queue' = Append(publishing_queue, Len(schedule_entries'))
    /\ UNCHANGED <<coreVars, extVars, clock, processing, histVars>>

\* lines 731-740: current_time is read and the ready entries are collected
StartProcessing(p) ==
    /\ processing[p].pc = "idle"
    /\ processing' =
          [processing EXCEPT ![p] =
              [pc |-> "loop",
               ready_items |->
                   SelectSeq(publishing_queue,
                             LAMBDA id : /\ schedule_entries[id].publish_time <= clock
                                         /\ schedule_entries[id].status = "scheduled"),
               i |-> 1]]
    /\ UNCHANGED <<coreVars, extVars, clock, publishing_queue, schedule_entries, histVars>>

\* lines 742-755: the next ready entry is taken off the queue and published;
\* cross_post is awaited, everything else runs through without a switch.
\* `remove` of an entry that is no longer queued raises ValueError, the
\* inner except goes on to the next entry
NextItem(p) ==
    LET me == processing[p]
        item == me.ready_items[me.i]
        entry == schedule_entries[item]
        skip == [processing EXCEPT ![p].i = @ + 1]
    IN  /\ me.pc = "loop"
        /\ me.i <= Len(me.ready_items)
        /\ IF item \notin Range(publishing_queue)
           THEN /\ processing' = skip
                /\ UNCHANGED <<publishing_queue, schedule_entries>>
           ELSE /\ publishing_queue' = RemoveFirst(publishing_queue, item)
                /\ CASE entry.content = "broken" ->
                          /\ processing' = skip
                          /\ UNCHANGED schedule_entries
                     [] entry.content = "direct" ->
                          /\ processing' = skip
                          /\ schedule_entries' =
                                [schedule_entries EXCEPT
                                    ![item] = AfterAttempt([entry EXCEPT !.tried = @ + 1],
                                                           TRUE, clock)]
                     [] OTHER ->
                          /\ processing' = [processing EXCEPT ![p].pc = "await"]
                          /\ schedule_entries' =
                                [schedule_entries EXCEPT ![item].tried = @ + 1]
        /\ UNCHANGED <<coreVars, extVars, clock, histVars>>

\* lines 753-773: cross_post returns its result dict (it raises nothing)
CrossPostReturns(p, success) ==
    LET me == processing[p]
        item == me.ready_items[me.i]
        after == AfterAttempt(schedule_entries[item], success, clock)
    IN  /\ me.pc = "await"
        /\ schedule_entries' = [schedule_entries EXCEPT ![item] = after]
        /\ publishing_queue' = IF after.status = "scheduled"
                               THEN Append(publishing_queue, item)
                               ELSE publishing_queue
        /\ processing' = [processing EXCEPT ![p].pc = "loop", ![p].i = @ + 1]
        /\ UNCHANGED <<coreVars, extVars, clock, histVars>>

\* lines 779-786: the statistics are returned
ReturnProcessing(p) ==
    /\ processing[p].pc = "loop"
    /\ processing[p].i > Len(processing[p].ready_items)
    /\ processing' = [processing EXCEPT ![p] = NotProcessing]
    /\ UNCHANGED <<coreVars, extVars, clock, publishing_queue, schedule_entries, histVars>>

\* time passes
Tick ==
    /\ clock < MaxTime
    /\ clock' = clock + 1
    /\ UNCHANGED <<coreVars, sideVars>>

\* Publisher.__init__
PublisherInit ==
    /\ pc = "publisher"
    /\ task = [a \in AdapterSet |-> "idle"]
    /\ results = [i \in DOMAIN Adapters |-> NoResult]
    /\ out_of_order = FALSE
    /\ rng = 0
    /\ heap = [a \in AdapterSet |-> <<>>]
    /\ all_topics = <<>>
    /\ unique_topics = <<>>
    /\ scored_topics = <<>>
    /\ final_topics = <<>>
    /\ xs = <<>>
    /\ ys = <<>>
    /\ zs = <<>>
    /\ calls = <<>>
    /\ caught = {}
    /\ SynthIdle
    /\ OrchIdle
    /\ publishing_queue = <<>>
    /\ schedule_entries = <<>>
    /\ processing = [p \in Procs |-> NotProcessing]
    /\ HistoryIdle
    /\ ExtIdle

PublisherNext ==
    \/ \E kind \in ContentKinds : ScheduleContent(kind)
    \/ \E p \in Procs : StartProcessing(p)
    \/ \E p \in Procs : NextItem(p)
    \/ \E p \in Procs : \E success \in BOOLEAN : CrossPostReturns(p, success)
    \/ \E p \in Procs : ReturnProcessing(p)
    \/ Tick

PublisherSpec == PublisherInit /\ [][PublisherNext]_vars

(***************************************************************************)
(* CraeftoOrchestrator: manual_content_sprint calls that overlap           *)
(***************************************************************************)
\* manual_content_sprint calls in a behaviour
MaxSprints == 3

Sprints == 1..MaxSprints

NotCalled == [pc |-> "idle", workflow_id |-> 0 - 1]

\* lines 240-247: the id is taken from the clock (whole seconds) and
\* self.current_workflow is replaced; the call then awaits research,
\* generation, visuals
StartSprint(s) ==
    /\ sprints[s].pc = "idle"
    /\ sprints' = [sprints EXCEPT ![s] = [pc |-> "running", workflow_id |-> clock]]
    /\ current_workflow' = [id |-> clock, status |-> "in_progress"]
    /\ UNCHANGED <<coreVars, extVars, clock, pubVars, workflow_history>>

\* lines 359-365: self.current_workflow, whichever dict that is by now, is
\* marked completed and a copy of it is appended to the history
SprintCompletes(s) ==
    /\ sprints[s].pc = "running"
    /\ current_workflow' = [current_workflow EXCEPT !.status = "completed"]
    /\ workflow_history' = Append(workflow_history, current_workflow')
    /\ sprints' = [sprints EXCEPT ![s].pc = "completed"]
    /\ UNCHANGED <<coreVars, extVars, clock, pubVars>>

\* lines 367-379: an await raised; self.current_workflow is marked failed
SprintFails(s) ==
    /\ sprints[s].pc = "running"
    /\ current_workflow' = [current_workflow EXCEPT !.status = "failed"]
    /\ sprints' = [sprints EXCEPT ![s].pc = "failed"]
    /\ UNCHANGED <<coreVars, extVars, clock, pubVars, workflow_history>>

\* CraeftoOrchestrator.__init__, before any sprint
SprintInit ==
    /\ pc = "orchestrator"
    /\ task = [a \in AdapterSet |-> "idle"]
    /\ results = [i \in DOMAIN Adapters |-> NoResult]
    /\ out_of_order = FALSE
    /\ rng = 0
    /\ heap = [a \in AdapterSet |-> <<>>]
    /\ all_topics = <<>>
    /\ unique_topics = <<>>
    /\ scored_topics = <<>>
    /\ final_topics = <<>>
    /\ xs = <<>>
    /\ ys = <<>>
    /\ zs = <<>>
    /\ calls = <<>>
    /\ caught = {}
    /\ SynthIdle
    /\ OrchIdle
    /\ PublisherIdle
    /\ current_workflow = NoCurrentWorkflow
    /\ workflow_history = <<>>
    /\ sprints = [s \in Sprints |-> NotCalled]
    /\ ExtIdle

SprintNext ==
    \/ \E s \in Sprints : StartSprint(s)
    \/ \E s \in Sprints : SprintCompletes(s)
    \/ \E s \in Sprints : SprintFails(s)
    \/ Tick

SprintSpec == SprintInit /\ [][SprintNext]_vars

(***************************************************************************)
(* CraeftoMonitor: CircuitBreaker and handle_api_failure                   *)
(* (app/utils/monitoring.py)                                               *)
(***************************************************************************)

\* CircuitBreaker.__init__: failure_threshold = 5, recovery_timeout = 60
FailureThreshold == 5
RecoveryTimeout == 60

\* timedelta.seconds leaves the days out
SecondsPerDay == 86400

\* one step of the monitor's clock, in seconds
SecondsPerTick == 45
MaxMonitorTime == 2

MaxHandlers == 2
Handlers == 1..MaxHandlers

\* the handle_api_failure calls of monitoring_integration.py
ApiCalls == {[api_name |-> "research_apis", retry_count |-> 3],
             [api_name |-> "openai", retry_count |-> 2]}

Apis == {c.api_name : c \in ApiCalls}

ApiFallbacks(api) ==
    CASE api = "openai" -> <<"anthropic", "cached_content">>
      [] api = "anthropic" -> <<"openai", "cached_content">>
      [] api = "replicate" -> <<"pillow_fallback">>
      [] api = "twitter" -> <<"manual_queue">>
      [] api = "linkedin" -> <<"manual_queue">>
      [] api = "supabase" -> <<"local_sqlite", "file_storage">>
      [] OTHER -> <<>>

\* `self.last_failure_time = None`
NoTime == 0 - 1

\* CircuitBreaker()
NewBreaker == [state |-> "CLOSED", failure_count |-> 0, last_failure_time |-> NoTime]

\* CircuitBreaker._should_attempt_reset
ShouldAttemptReset(b, now) ==
    IF b.last_failure_time = NoTime
    THEN TRUE
    ELSE ((now - b.last_failure_time) * SecondsPerTick) % SecondsPerDay > RecoveryTimeout

\* CircuitBreaker._on_success
OnSuccess(b) == [b EXCEPT !.failure_count = 0, !.state = "CLOSED"]

\* _on_failure that opens only above the threshold
OnFailureAboveThreshold(b, now) ==
    LET n == b.failure_count + 1
    IN  [b EXCEPT !.failure_count = n,
                  !.last_failure_time = now,
                  !.state = IF n > FailureThreshold THEN "OPEN" ELSE @]

\* CircuitBreaker._on_failure
OnFailure(b, now) ==
    LET n == b.failure_count + 1
    IN  [b EXCEPT !.failure_count = n,
                  !.last_failure_time = now,
                  !.state = IF n >= FailureThreshold THEN "OPEN" ELSE @]

\* no handle_api_failure call in this slot
NoHandler ==
    [pc |-> "idle", api |-> "", retry_count |-> 0, attempt |-> 0,
     attempts_made |-> 0, due_at_call |-> FALSE, open_at_retry |-> FALSE,
     result |-> [success |-> FALSE, method |-> "none"]]

\* no CircuitBreaker.call in progress
NoCall == [pc |-> "idle", api |-> "", half_open |-> FALSE, outcome |-> "none"]

\* _try_alternative_api: the simulated alternative always answers
TryAlternativeApi(alt_api) == [success |-> TRUE, method |-> alt_api]

\* _try_fallbacks, fallbacks from index i on; the cache holds `cached` or not
RECURSIVE TryFallbacksFrom(_, _, _)
TryFallbacksFrom(fallbacks, i, cached) ==
    IF i > Len(fallbacks)
    THEN [success |-> FALSE, method |-> "none"]
    ELSE LET fallback == fallbacks[i]
         IN  CASE fallback = "cached_content" ->
                    IF cached THEN [success |-> TRUE, method |-> "cached"]
                    ELSE TryFallbacksFrom(fallbacks, i + 1, cached)
               [] fallback = "manual_queue" ->
                    [success |-> TRUE, method |-> "manual_queue"]
               [] fallback = "pillow_fallback" ->
                    [success |-> TRUE, method |-> "pillow_fallback"]
               [] OTHER -> TryAlternativeApi(fallback)

TryFallbacks(api, cached) == TryFallbacksFrom(ApiFallbacks(api), 1, cached)

\* handle_api_failure is called: up to the retry loop.  A run is explored
\* for one API at a time: the breakers of different APIs share no state.
HandleApiFailure(h, api, retry_count) ==
    /\ pc = "monitor"
    /\ handlers[h].pc \in {"idle", "returned"}
    /\ DOMAIN circuit_breakers \subseteq {api}
    /\ LET created == IF api \in DOMAIN circuit_breakers
                      THEN circuit_breakers
                      ELSE [a \in DOMAIN circuit_breakers \cup {api} |->
                              IF a = api THEN NewBreaker ELSE circuit_breakers[a]]
           b == created[api]
       IN  /\ circuit_breakers' = created
           /\ handlers' = [handlers EXCEPT ![h] =
                  [NoHandler EXCEPT !.pc = "loop", !.api = api,
                                    !.retry_count = retry_count,
                                    !.due_at_call = (b.state = "OPEN"
                                        /\ ShouldAttemptReset(b, clock))]]
    /\ UNCHANGED <<coreVars, clock, pubVars, histVars, breaker_call, twVars>>

\* top of `for attempt in range(retry_count)`, up to `await asyncio.sleep`
LoopCheck(h) ==
    /\ handlers[h].pc = "loop"
    /\ LET c == handlers[h]
       IN  handlers' = [handlers EXCEPT ![h].pc =
               IF c.attempt >= c.retry_count THEN "fallbacks"
               ELSE IF circuit_breakers[c.api].state = "OPEN" THEN "fallbacks"
               ELSE "sleep"]
    /\ UNCHANGED <<coreVars, clock, pubVars, histVars, circuit_breakers, breaker_call,
                   twVars>>

\* the sleep is over: _simulate_api_retry answers or raises
Retry(h, success) ==
    /\ handlers[h].pc = "sleep"
    /\ LET c == handlers[h]
           b == circuit_breakers[c.api]
           made == [c EXCEPT !.attempts_made = @ + 1,
                             !.open_at_retry = @ \/ b.state = "OPEN"]
       IN  IF success
           THEN /\ circuit_breakers' = [circuit_breakers EXCEPT ![c.api] = OnSuccess(b)]
                /\ handlers' = [handlers EXCEPT ![h] =
                       [made EXCEPT !.pc = "returned", !.attempt = 0,
                                    !.result = [success |-> TRUE, method |-> "retry"]]]
           ELSE /\ circuit_breakers' =
                       [circuit_breakers EXCEPT ![c.api] = OnFailure(b, clock)]
                /\ handlers' = [handlers EXCEPT ![h] =
                       [made EXCEPT !.pc = "loop", !.attempt = @ + 1]]
    /\ UNCHANGED <<coreVars, clock, pubVars, histVars, breaker_call, twVars>>

\* after the loop: _try_fallbacks, the alert, and the return
Fallbacks(h, cached) ==
    /\ handlers[h].pc = "fallbacks"
    /\ handlers' = [handlers EXCEPT ![h].pc = "returned",
                                    ![h].attempt = 0,
                                    ![h].result = TryFallbacks(handlers[h].api, cached)]
    /\ UNCHANGED <<coreVars, clock, pubVars, histVars, circuit_breakers, breaker_call,
                   twVars>>

\* CircuitBreaker.call up to `result = func()`
CallEnter(api) ==
    /\ pc = "monitor"
    /\ api \in DOMAIN circuit_breakers
    /\ breaker_call.pc # "func"
    /\ LET b == circuit_breakers[api]
       IN  IF b.state = "OPEN"
           THEN IF ShouldAttemptReset(b, clock)
                THEN /\ circuit_breakers' =
                            [circuit_breakers EXCEPT ![api].state = "HALF_OPEN"]
                     /\ breaker_call' = [NoCall EXCEPT !.pc = "func", !.api = api,
                                                       !.half_open = TRUE]
                ELSE /\ breaker_call' = [NoCall EXCEPT !.pc = "done", !.api = api,
                                                       !.outcome = "refused"]
                     /\ UNCHANGED circuit_breakers
           ELSE /\ breaker_call' = [NoCall EXCEPT !.pc = "func", !.api = api]
                /\ UNCHANGED circuit_breakers
    /\ UNCHANGED <<coreVars, clock, pubVars, histVars, handlers, twVars>>

\* func() returns or raises
CallReturns(success) ==
    /\ breaker_call.pc = "func"
    /\ LET api == breaker_call.api
           b == circuit_breakers[api]
       IN  /\ circuit_breakers' = [circuit_breakers EXCEPT ![api] =
                  IF success THEN OnSuccess(b) ELSE OnFailure(b, clock)]
           /\ breaker_call' = [breaker_call EXCEPT
                  !.pc = "done",
                  !.outcome = IF success THEN "success" ELSE "failure"]
    /\ UNCHANGED <<coreVars, clock, pubVars, histVars, handlers, twVars>>

\* time passes
MonitorTick ==
    /\ pc = "monitor"
    /\ clock < MaxMonitorTime
    /\ clock' = clock + 1
    /\ UNCHANGED <<coreVars, sideVars>>

\* CraeftoMonitor.__init__
MonitorInit ==
    /\ pc = "monitor"
    /\ task = [a \in AdapterSet |-> "idle"]
    /\ results = [i \in DOMAIN Adapters |-> NoResult]
    /\ out_of_order = FALSE
    /\ rng = 0
    /\ heap = [a \in AdapterSet |-> <<>>]
    /\ all_topics = <<>>
    /\ unique_topics = <<>>
    /\ scored_topics = <<>>
    /\ final_topics = <<>>
    /\ xs = <<>>
    /\ ys = <<>>
    /\ zs = <<>>
    /\ calls = <<>>
    /\ caught = {}
    /\ SynthIdle
    /\ OrchIdle
    /\ PublisherIdle
    /\ HistoryIdle
    /\ TwitterIdle
    /\ circuit_breakers = <<>>
    /\ handlers = [h \in Handlers |-> NoHandler]
    /\ breaker_call = NoCall

MonitorNext ==
    \/ \E h \in Handlers, c \in ApiCalls :
          HandleApiFailure(h, c.api_name, c.retry_count)
    \/ \E h \in Handlers : LoopCheck(h)
    \/ \E h \in Handlers, success \in BOOLEAN : Retry(h, success)
    \/ \E h \in Handlers, cached \in BOOLEAN : Fallbacks(h, cached)
    \/ \E api \in Apis : CallEnter(api)
    \/ \E success \in BOOLEAN : CallReturns(success)
    \/ MonitorTick

MonitorSpec == MonitorInit /\ [][MonitorNext]_vars

(***************************************************************************)
(* Publisher.publish_to_twitter (app/agents/publisher.py)                  *)
(***************************************************************************)

\* platform_configs["twitter"]: max_length and max_thread_length
MaxLength == 280
MaxThreadLength == 25

\* a tweet is modelled by len(tweet); these are the lengths of the inputs
TweetLens == {0, 274, 275, 280, 281}

\* threads of up to MaxThread tweets take every combination of TweetLens
MaxThread == 2

\* n tweets of the same length
UniformThread(n, len) == [i \in 1..n |-> len]

\* the thread_content arguments: a str, or a list of tweets
ThreadContents ==
    {[is_str |-> TRUE, tweets |-> <<len>>] : len \in TweetLens}
    \cup {[is_str |-> FALSE, tweets |-> t] :
            t \in UNION {[1..n -> TweetLens] : n \in 0..MaxThread}}
    \cup {[is_str |-> FALSE, tweets |-> UniformThread(n, 273)] :
            n \in {MaxThreadLength, MaxThreadLength + 1}}

\* len(str(n)) of a positive n below 1000
DecimalLen(n) == IF n < 10 THEN 1 ELSE IF n < 100 THEN 2 ELSE 3

\* len of the text posted for tweets[i] (i from 0):
\* f"{tweet_text} ({i+1}/{len(tweets)})" when the thread has several tweets
Numbered(len, i, n) ==
    IF n > 1 THEN len + 4 + DecimalLen(i + 1) + DecimalLen(n) ELSE len

\* publish_to_twitter not called
NoThread ==
    [pc |-> "idle", is_str |-> FALSE, tweets |-> <<>>, i |-> 0, published |-> 0,
     success |-> FALSE]

\* the first tweet that is too long, 0 if there is none
RECURSIVE FirstTooLong(_, _)
FirstTooLong(tweets, i) ==
    IF i > Len(tweets) THEN 0
    ELSE IF tweets[i] > MaxLength THEN i
    ELSE FirstTooLong(tweets, i + 1)

\* publish_to_twitter is called: up to the first post_tweet.  upload_media
\* returns None for every image, so media_ids stays empty.
PublishToTwitter(content, configured) ==
    /\ pc = "twitter"
    /\ thread.pc = "idle"
    /\ LET called == [NoThread EXCEPT !.is_str = content.is_str,
                                      !.tweets = content.tweets]
       IN  thread' =
             IF ~configured THEN [called EXCEPT !.pc = "returned"]
             ELSE IF Len(content.tweets) > MaxThreadLength
                  THEN [called EXCEPT !.pc = "returned"]
             ELSE IF FirstTooLong(content.tweets, 1) # 0
                  THEN [called EXCEPT !.pc = "returned"]
             ELSE IF Len(content.tweets) = 0
                  THEN [called EXCEPT !.pc = "returned"]
             ELSE [called EXCEPT !.pc = "posting"]
    /\ UNCHANGED <<coreVars, clock, pubVars, histVars, monVars, post_tweet_calls>>

\* one round of `for i, tweet_text in enumerate(tweets)`: post_tweet is called
\* and answers; after the last round or a failure the method returns
PostTweet(success) ==
    /\ thread.pc = "posting"
    /\ LET n == Len(thread.tweets)
           text == Numbered(thread.tweets[thread.i + 1], thread.i, n)
           published == thread.published + (IF success THEN 1 ELSE 0)
       IN  /\ post_tweet_calls' = Append(post_tweet_calls, text)
           /\ thread' =
                IF success /\ thread.i < n - 1
                THEN [thread EXCEPT !.i = @ + 1, !.published = published]
                ELSE [thread EXCEPT !.pc = "returned",
                                    !.published = published,
                                    !.success = (published > 0)]
    /\ UNCHANGED <<coreVars, clock, pubVars, histVars, monVars>>

\* Publisher.__init__
TwitterInit ==
    /\ pc = "twitter"
    /\ task = [a \in AdapterSet |-> "idle"]
    /\ results = [i \in DOMAIN Adapters |-> NoResult]
    /\ out_of_order = FALSE
    /\ rng = 0
    /\ heap = [a \in AdapterSet |-> <<>>]
    /\ all_topics = <<>>
    /\ unique_topics = <<>>
    /\ scored_topics = <<>>
    /\ final_topics = <<>>
    /\ xs = <<>>
    /\ ys = <<>>
    /\ zs = <<>>
    /\ calls = <<>>
    /\ caught = {}
    /\ SynthIdle
    /\ OrchIdle
    /\ PublisherIdle
    /\ HistoryIdle
    /\ MonitorIdle
    /\ thread = NoThread
    /\ post_tweet_calls = <<>>

TwitterNext ==
    \/ \E content \in ThreadContents, configured \in BOOLEAN :
          PublishToTwitter(content, configured)
    \/ \E success \in BOOLEAN : PostTweet(success)

TwitterSpec == TwitterInit /\ [][TwitterNext]_vars

(***************************************************************************)
(* Properties                                                              *)
(***************************************************************************)
Raised == {a \in AdapterSet : task[a] = "raised"}

Returned == {a \in AdapterSet : task[a] = "returned"}

AfterCollect == pc \in {"dedup", "score", "rank", "done"}

ScoreOf(ref) == Deref(heap, ref).relevance_score

\* position of a reference in all_topics
PosIn(list, ref) == CHOOSE i \in DOMAIN list : list[i] = ref

RECURSIVE ConcatReturned(_)
\* the lists of the adapters that returned, in the order the adapters were
\* handed to gather, from the i-th adapter on
ConcatReturned(i) ==
    IF i > Len(Adapters) THEN <<>>
    ELSE (IF task[Adapters[i]] = "returned" THEN RefsOf(heap, Adapters[i]) ELSE <<>>)
         \o ConcatReturned(i + 1)

\* C1: when exactly one of the four adapters raises, the run does not fail,
\* and what it returns is made of the candidates of the other three: every
\* topic returned is a dict one of them returned, and every dict they
\* returned went into all_topics.
C1_PartialFailureIsolation ==
    Cardinality(Raised) = 1 =>
        /\ pc # "failed"
        /\ AfterCollect =>
              \A a \in Returned : \A k \in 1..Len(heap[a]) : <<a, k>> \in Range(all_topics)
        /\ pc = "done" =>
              \A ref \in Range(final_topics) :
                  /\ ref[1] \in Returned
                  /\ ref[2] \in 1..Len(heap[ref[1]])
                  /\ Deref(heap, ref).source = ref[1]

C1_Witness ==
    /\ pc = "done"
    /\ Raised = {"reddit"}
    /\ Len(heap["producthunt"]) > 0
    /\ Len(final_topics) > Len(heap["producthunt"])

\* C2: deduplication and scoring start only after every adapter has finished
\* (returned or raised): while one of them is pending or waiting the run stays
\* at the gather, also when another adapter has already raised; a raise of
\* one adapter leaves the state of every other adapter as it is.
C2_FanInBarrier ==
    /\ [](pc \notin {"start", "gather"} => \A a \in AdapterSet : Finished(a))
    /\ [][\A a \in AdapterSet :
            (task'[a] = "raised" /\ task[a] # "raised")
                => \A b \in AdapterSet \ {a} : task'[b] = task[b]]_vars
    /\ [][\A a \in AdapterSet :
            task[a] \in {"pending", "waiting"}
                => task'[a] \in {"pending", "waiting", "returned", "raised"}]_vars

C2_Witness ==
    /\ pc = "gather"
    /\ task["reddit"] = "raised"
    /\ task["producthunt"] = "waiting"
    /\ task["twitter"] = "returned"
    /\ task["google_trends"] = "pending"

\* C3: whatever the adapters do (topics, no topics, an exception), a run
\* under FairSpec reaches done, where it returns a list, and never fails.
C3_RunCompletes ==
    /\ <>(pc = "done")
    /\ [](pc # "failed")

C3_Witness ==
    /\ pc = "done"
    /\ Raised # {}
    /\ \E a \in Returned : heap[a] = <<>>
    /\ \E a \in Returned : heap[a] # <<>>

\* C4: every relevance_score written by _calculate_relevance_scores is
\* between 0 and 100.
C4_ScoreBound ==
    pc \in {"rank", "done"} =>
        \A ref \in Range(scored_topics) : ScoreOf(ref) >= 0 /\ ScoreOf(ref) <= 100 * Scale

\* C5: calling _calculate_relevance_scores again and again on the same
\* candidate gives the same relevance_score every time.
C5_ScoringDeterministic ==
    \A i, j \in DOMAIN calls : calls[i] = calls[j]

\* C6: _deduplicate_topics(_deduplicate_topics(xs)) = _deduplicate_topics(xs).
C6_DedupIdempotent ==
    pc = "dedup_end" => zs = ys

C6_Witness ==
    /\ pc = "dedup_end"
    /\ Len(ys) >= 2
    /\ Len(ys) < Len(xs)
    /\ zs = ys

\* the elements of list at the positions in S, in order
Restrict(list, S) == LET idx == Ascending(S) IN [k \in 1..Len(idx) |-> list[idx[k]]]

NearDuplicates(ref1, ref2) ==
    SignificantOverlap(WordSet(Lower(Deref(heap, ref1).topic)),
                       WordSet(Lower(Deref(heap, ref2).topic)))

\* C7: the output of _deduplicate_topics is its input with some positions
\* left out, the order otherwise kept; each candidate left out is a
\* near-duplicate of a kept candidate that comes before it in the input, and
\* no kept candidate is a near-duplicate of a kept candidate before it;
\* scores and sources play no part.
C7_DedupOrderPreserved ==
    pc \in {"dedup_second", "dedup_end"} =>
        \E S \in SUBSET DOMAIN xs :
            /\ ys = Restrict(xs, S)
            /\ \A j \in DOMAIN xs \ S : \E i \in S : i < j /\ NearDuplicates(xs[i], xs[j])
            /\ \A i, j \in S : i < j => ~NearDuplicates(xs[i], xs[j])

C7_Witness ==
    /\ pc = "dedup_second"
    /\ Len(xs) >= 3
    /\ Len(ys) = 2
    /\ ys[1] = xs[1]
    /\ ys[2] # xs[2]
    /\ ScoreOf(ys[1]) < ScoreOf(xs[2])
    /\ NearDuplicates(xs[1], xs[2])

DistinctScores(list) ==
    \A i, j \in DOMAIN list : i # j => ScoreOf(list[i]) # ScoreOf(list[j])

\* C8: with more than 20 scored topics of distinct scores the run returns
\* exactly 20 of them, each scoring higher than every topic left out; with
\* 20 or fewer it returns them all.
C8_TopKTruncation ==
    pc = "done" =>
        /\ Range(final_topics) \subseteq Range(scored_topics)
        /\ (Len(scored_topics) > TopK /\ DistinctScores(scored_topics)) =>
              /\ Len(final_topics) = TopK
              /\ \A kept \in Range(final_topics) :
                    \A dropped \in Range(scored_topics) \ Range(final_topics) :
                        ScoreOf(kept) > ScoreOf(dropped)
        /\ Len(scored_topics) <= TopK =>
              /\ Len(final_topics) = Len(scored_topics)
              /\ Range(final_topics) = Range(scored_topics)

C8_Witness ==
    /\ pc = "done"
    /\ Len(scored_topics) > TopK
    /\ DistinctScores(scored_topics)
    /\ Len(final_topics) = TopK

\* C9: the returned list is in descending order of relevance_score, and two
\* topics of equal score stand in the order they had in all_topics.
C9_RankingOrder ==
    pc = "done" =>
        \A i, j \in DOMAIN final_topics :
            i < j =>
                /\ ScoreOf(final_topics[i]) >= ScoreOf(final_topics[j])
                /\ ScoreOf(final_topics[i]) = ScoreOf(final_topics[j])
                      => PosIn(all_topics, final_topics[i]) < PosIn(all_topics, final_topics[j])

C9_Witness ==
    /\ pc = "done"
    /\ \E i, j \in DOMAIN final_topics :
          /\ i < j
          /\ ScoreOf(final_topics[i]) = ScoreOf(final_topics[j])
          /\ final_topics[i][1] # final_topics[j][1]

\* C10: all_topics is the adapters' lists one after the other in the order
\* reddit, producthunt, twitter, google_trends, each list in the order its
\* adapter returned it, whatever order the adapters finished in.
C10_ConcatenationOrder ==
    AfterCollect => all_topics = ConcatReturned(1)

C10_Witness ==
    /\ pc = "done"
    /\ out_of_order
    /\ Returned = AdapterSet
    /\ Len(heap["reddit"]) > 1
    /\ Len(heap["producthunt"]) > 1
    /\ Len(heap["twitter"]) > 1

\* C15: an adapter in which a failure occurred (network error, parse error,
\* unexpected response shape), at whatever point of its fetch, does not
\* raise and returns an empty list.
C15_AdapterFailureEmpty ==
    \A a \in caught : task[a] = "returned" /\ heap[a] = <<>>

\* the trends generate_content_ideas looks at
Considered == Take(trending_data, TopN)

TrendAt(i) == Deref(heap, Considered[i])

\* the returned ideas made for a topic
ReturnedFor(topic) == {x \in Range(prioritized_ideas) : ideas[x].topic = topic}

\* the first ten trends name pairwise different topics
DistinctTopics ==
    \A i, j \in DOMAIN Considered : i # j => TrendAt(i).topic # TrendAt(j).topic

\* C11 as stated: each of the first ten topics scoring above 70 has ideas of
\* all three formats among the returned ideas, each one scoring 70 or less
\* has exactly one returned idea, a blog idea.
C11_FanOutInReturned ==
    (pc = "ideas_done" /\ DistinctTopics) =>
        \A i \in DOMAIN Considered :
            LET got == ReturnedFor(TrendAt(i).topic)
            IN  IF TrendAt(i).relevance_score > IdeaThreshold * Scale
                THEN {ideas[x].format : x \in got} = {"blog", "social", "email"}
                ELSE Cardinality(got) = 1 /\ \A x \in got : ideas[x].format = "blog"

\* number of ideas a trend is to yield
FanOut(i) == IF TrendAt(i).relevance_score > IdeaThreshold * Scale THEN 3 ELSE 1

RECURSIVE IdeasBefore(_)
\* number of ideas the trends ahead of the i-th are to yield
IdeasBefore(i) == IF i <= 1 THEN 0 ELSE IdeasBefore(i - 1) + FanOut(i - 1)

\* C11, amended: the ideas created (content_ideas, before the top-5
\* selection) are, trend by trend for the first ten trends, a blog, a social
\* and an email idea for a trend scoring above 70 and one blog idea for a
\* trend scoring 70 or less, each on the trend's topic; the returned ideas
\* are up to five of the created ones.
C11_FanOutInCreated ==
    pc \in {"ideas_sort", "ideas_ids", "ideas_done"} =>
        /\ Len(content_ideas) = IdeasBefore(Len(Considered) + 1)
        /\ \A i \in DOMAIN Considered :
              LET first == IdeasBefore(i) + 1
                  made == SubSeq(content_ideas, first, first + FanOut(i) - 1)
              IN  /\ \A k \in DOMAIN made : ideas[made[k]].topic = TrendAt(i).topic
                  /\ [k \in DOMAIN made |-> ideas[made[k]].format]
                        = IF TrendAt(i).relevance_score > IdeaThreshold * Scale
                          THEN <<"blog", "social", "email">>
                          ELSE <<"blog">>
        /\ Range(prioritized_ideas) \subseteq Range(content_ideas)
        /\ Len(prioritized_ideas) <= TopIdeas

C11_Witness ==
    /\ pc = "ideas_done"
    /\ Len(trending_data) > TopN
    /\ Len(content_ideas) > TopIdeas
    /\ \E i \in DOMAIN Considered : TrendAt(i).relevance_score = IdeaThreshold * Scale
    /\ \E i \in DOMAIN Considered : TrendAt(i).relevance_score > IdeaThreshold * Scale

\* C12: for a list of one topic, generate_content_ideas returns three ideas,
\* one blog, one social, one email, when the topic scores above 70, and one
\* idea, a blog idea, when it scores 70 or less.
C12_SingleTopicThreshold ==
    (pc = "ideas_done" /\ Len(trending_data) = 1) =>
        LET formats == [k \in DOMAIN prioritized_ideas |-> ideas[prioritized_ideas[k]].format]
        IN  IF TrendAt(1).relevance_score > IdeaThreshold * Scale
            THEN /\ Len(formats) = 3
                 /\ Range(formats) = {"blog", "social", "email"}
            ELSE formats = <<"blog">>

C12_Witness ==
    /\ pc = "ideas_done"
    /\ Len(trending_data) = 1
    /\ TrendAt(1).relevance_score = IdeaThreshold * Scale
    /\ Len(prioritized_ideas) = 1

C12_WitnessAbove ==
    /\ pc = "ideas_done"
    /\ Len(trending_data) = 1
    /\ TrendAt(1).relevance_score = 75 * Scale
    /\ Len(prioritized_ideas) = 3

PriorityOf(x) == ideas[x].priority_score

\* C13: generate_content_ideas returns at most five ideas, in descending
\* order of priority_score, and no idea that was created and left out has a
\* priority_score above that of a returned idea.
C13_TopFiveIdeas ==
    pc \in {"ideas_ids", "ideas_done"} =>
        /\ Len(prioritized_ideas) = Min(Len(content_ideas), TopIdeas)
        /\ Range(prioritized_ideas) \subseteq Range(content_ideas)
        /\ \A i, j \in DOMAIN prioritized_ideas :
              i < j => /\ prioritized_ideas[i] # prioritized_ideas[j]
                       /\ PriorityOf(prioritized_ideas[i]) >= PriorityOf(prioritized_ideas[j])
        /\ \A left \in Range(content_ideas) \ Range(prioritized_ideas) :
              \A kept \in Range(prioritized_ideas) : PriorityOf(left) <= PriorityOf(kept)

C13_Witness ==
    /\ pc = "ideas_done"
    /\ Len(content_ideas) > TopIdeas
    /\ prioritized_ideas # Take(content_ideas, TopIdeas)
    /\ \E left \in Range(content_ideas) \ Range(prioritized_ideas) :
          PriorityOf(left) < PriorityOf(prioritized_ideas[Len(prioritized_ideas)])
    /\ PriorityOf(prioritized_ideas[1]) > PriorityOf(prioritized_ideas[Len(prioritized_ideas)])

\* C14: no idea carries an id or a generated_at before the top-5 selection
\* is made; when generate_content_ideas returns, the returned ideas carry the
\* sequence numbers 0, 1, .. in rank order, their ids differ pairwise, and
\* the ideas left out carry no id and no timestamp.
C14_IdsAfterSelection ==
    /\ pc \in {"ideas_start", "ideas_sort", "ideas_ids"} =>
          \A x \in DOMAIN ideas : ideas[x].id = NoId /\ ideas[x].generated_at = NoId
    /\ pc = "ideas_done" =>
          /\ \A i \in DOMAIN prioritized_ideas :
                LET idea == ideas[prioritized_ideas[i]]
                IN  /\ idea.id # NoId /\ idea.generated_at # NoId
                    /\ idea.id[2] = i - 1
          /\ \A i, j \in DOMAIN prioritized_ideas :
                i # j => ideas[prioritized_ideas[i]].id # ideas[prioritized_ideas[j]].id
          /\ \A x \in Range(content_ideas) \ Range(prioritized_ideas) :
                ideas[x].id = NoId /\ ideas[x].generated_at = NoId

C14_Witness ==
    /\ pc = "ideas_done"
    /\ Len(content_ideas) > TopIdeas
    /\ prioritized_ideas # Take(content_ideas, TopIdeas)
    /\ ideas[prioritized_ideas[1]].id[1] # ideas[prioritized_ideas[TopIdeas]].id[1]

\* C16: the scorer leaves the candidate dicts it is given as they were: the
\* step of find_trending_topics that calls _calculate_relevance_scores
\* changes no dict of the heap (so the deduplicated list reads the same
\* after scoring as before).
C16_NoInPlaceMutation ==
    [][pc = "score" => heap' = heap]_vars

\* number of craefto_keywords found in the topic
KeywordsMatched(topic_data) == CountMatches(craefto_keywords, Lower(topic_data.topic))

\* C17: of two candidates of the same source, the one with the higher (or
\* equal) source-reported score and the higher (or equal) number of keywords
\* matched gets the higher (or equal) relevance_score from the scorer.
C17_ScoreMonotone ==
    Len(calls) = 1 =>
        \A i, j \in DOMAIN xs :
            LET a == Deref(heap, xs[i])
                b == Deref(heap, xs[j])
            IN  (/\ a.source = b.source
                 /\ a.raw_score <= b.raw_score
                 /\ KeywordsMatched(a) <= KeywordsMatched(b))
                    => a.relevance_score <= b.relevance_score

C17_Witness ==
    /\ Len(calls) = 1
    /\ Len(xs) = 2
    /\ Deref(heap, xs[1]).raw_score = Deref(heap, xs[2]).raw_score
    /\ KeywordsMatched(Deref(heap, xs[1])) < KeywordsMatched(Deref(heap, xs[2]))
    /\ Deref(heap, xs[1]).relevance_score < Deref(heap, xs[2]).relevance_score
    /\ Deref(heap, xs[2]).relevance_score < 100 * Scale

\* a workflow operation is between find_trending_topics and its return
Synthesizing ==
    /\ pc \in {"ideas_start", "ideas_sort", "ideas_ids", "ideas_done"}
    /\ workflow.kind \in ResearchWorkflows

\* a research workflow has returned its payload
Delivered == result.status \in {"ready_for_manual_publish", "ready_for_review"}

Stages ==
    <<"idle", "start", "gather", "collect", "dedup", "score", "rank", "done",
      "ideas_start", "ideas_sort", "ideas_ids", "ideas_done">>

StageOf(p) == CHOOSE i \in DOMAIN Stages : Stages[i] = p

\* positions of final_topics whose topic or context contains the hint
Matching == {i \in DOMAIN final_topics : MatchesHint(heap, workflow.topic, final_topics[i])}

\* the k-th position of S in increasing order
NthOf(S, k) == CHOOSE i \in S : Cardinality({j \in S : j < i}) = k - 1

HandedOn ==
    LET n == IF workflow.topic = "" THEN 5 ELSE 3
    IN  IF workflow.kind = "manual_content_sprint" /\ workflow.topic # "" /\ Matching # {}
        THEN /\ Len(trending_data) = Min(n, Cardinality(Matching))
             /\ \A k \in DOMAIN trending_data :
                    trending_data[k] = final_topics[NthOf(Matching, k)]
        ELSE /\ Len(trending_data) = Min(n, Len(final_topics))
             /\ \A k \in DOMAIN trending_data : trending_data[k] = final_topics[k]

Returned5And3 ==
    /\ result.status = "ready_for_manual_publish" =>
          /\ result.research_insights = trending_data
          /\ result.content_ideas = SubSeq(prioritized_ideas, 1, Min(1, Len(prioritized_ideas)))
    /\ result.status = "ready_for_review" =>
          /\ result.research_insights = SubSeq(final_topics, 1, Min(5, Len(final_topics)))
          /\ result.content_ideas = SubSeq(prioritized_ideas, 1, Min(3, Len(prioritized_ideas)))

C18_WitnessHint ==
    /\ result.status = "ready_for_manual_publish"
    /\ Len(final_topics) > 3
    /\ Len(result.research_insights) = 2
    /\ result.research_insights[2] # final_topics[2]

\* C19: an orchestrator has safe_mode True from construction on, and no
\* sequence of manual_content_sprint, gtm_test_cycle, full_content_pipeline
\* and performance_optimization_cycle sets it to False or calls a publish or
\* send operation of the Publisher: the workflows only return payloads.
C19_SafeMode ==
    /\ safe_mode = TRUE
    /\ publish_calls = 0

C19_Witness ==
    /\ result.status = "ready_for_review"
    /\ clock = MaxClock
    /\ safe_mode = TRUE
    /\ publish_calls = 0

\* the duplicate rule with the 60% mark included
InclusiveOverlap(ref1, ref2) ==
    LET topic_words == WordSet(Lower(Deref(heap, ref1).topic))
        seen_words == WordSet(Lower(Deref(heap, ref2).topic))
        overlap == Cardinality(topic_words \cap seen_words)
    IN  /\ overlap >= 2
        /\ \/ 10 * overlap >= 6 * Cardinality(topic_words)
           \/ 10 * overlap >= 6 * Cardinality(seen_words)

\* C20: _deduplicate_topics drops a candidate if and only if some topic kept
\* before it shares at least 2 words with it and the shared words are at
\* least 60% of the candidate's words or at least 60% of the kept topic's
\* words (3 shared words out of 5 make a duplicate).
C20_InclusiveThreshold ==
    pc \in {"dedup_second", "dedup_end"} =>
        \E S \in SUBSET DOMAIN xs :
            /\ ys = Restrict(xs, S)
            /\ \A j \in DOMAIN xs :
                   j \notin S <=> \E i \in S : i < j /\ InclusiveOverlap(xs[j], xs[i])

\* the scored candidates of the pair
ScoredPair == {Deref(heap, xs[i]) : i \in DOMAIN xs}

\* keyword_boost: matches / (keyword list size) * 30, in units of 1/Scale
KeywordBoost(c) == (KeywordsMatched(c) * BoostWeight * Scale) \div Len(craefto_keywords)

\* the per-source constant in tenths, 1.0 for a source not listed
ListedMultiplier(c) ==
    IF c.source = "reddit" THEN 12
    ELSE IF c.source = "producthunt" THEN 11
    ELSE IF c.source = "google_trends" THEN 13
    ELSE 10

\* min((base + keyword_boost) * source_multiplier, 100) rounded to 2 decimals
Composite(base, c) ==
    Round2(Min(FloorDiv((base + KeywordBoost(c)) * ListedMultiplier(c), 10), 100 * Scale))

\* C21 as stated: the scorer gives every candidate the score
\* min((raw_score + keyword_boost) * source_multiplier, 100) rounded to 2
\* decimals, raw_score being the candidate's raw_score field.
C21_FormulaOnRawScore ==
    Len(calls) = 1 =>
        \A c \in ScoredPair : c.relevance_score = Composite(c.raw_score * Scale, c)

\* C21, amended: the scorer gives every candidate the score
\* min((base + keyword_boost) * source_multiplier, 100) rounded to 2 decimals,
\* base being the relevance_score its adapter gave it (for a reddit candidate
\* min(raw_score / 10, 100), not the raw_score field itself), keyword_boost
\* the share of the domain keywords found in the topic times 30, and the
\* multiplier the per-source constant, 1.0 for an unlisted source.
C21_FormulaOnAdapterScore ==
    Len(calls) = 1 =>
        \A c \in ScoredPair :
            LET base == IF c.source = "reddit"
                        THEN Min((c.raw_score * Scale) \div 10, 100 * Scale)
                        ELSE c.raw_score * Scale
            IN  c.relevance_score = Composite(base, c)

C21_Witness ==
    /\ Len(calls) = 1
    /\ \E c \in ScoredPair :
          /\ c.source = "reddit"
          /\ c.raw_score = 420
          /\ KeywordsMatched(c) = 2
          /\ c.relevance_score = 5490 * 100

\* a candidate of an unlisted source: (55 + 1.88) * 1.0 = 56.88 (the boost
\* 1.875 is rounded after the sum)
C21_WitnessUnlisted ==
    /\ Len(calls) = 1
    /\ \E c \in ScoredPair :
          /\ c.source = "newsletter"
          /\ c.raw_score = 55
          /\ KeywordsMatched(c) = 1
          /\ c.relevance_score = 5688 * 100

\* the tokens of the text after lowercasing, punctuation stripping and
\* stop-word removal
Tokens(text) == SelectSeq(Split(StripPunct(Lower(text))), LAMBDA w : w \notin stop_words)

\* those of more than 2 characters
LongTokens(text) == SelectSeq(Tokens(text), LAMBDA w : Len(w) > 2)

\* the 3-token window of mw that starts at its i-th token
Window(mw, i) == Join(SubSeq(mw, i, i + 2))

HasTechKeyword(phrase) == \E k \in DOMAIN tech_keywords : Contains(phrase, tech_keywords[k])

\* what the normalizer is to return for a text whose meaningful tokens are mw
WindowSelected(text, mw) ==
    LET n == Len(mw)
        hits == {i \in 1..(n - 2) : HasTechKeyword(Window(mw, i))}
    IN  IF n >= 3
        THEN IF hits # {}
             THEN Title(Window(mw, CHOOSE i \in hits : \A j \in hits : i <= j))
             ELSE Title(Window(mw, 1))
        ELSE IF n > 0 THEN Title(Join(mw))
        ELSE SubSeq(text, 1, Min(50, Len(text)))

\* C22 as stated: with the meaningful tokens being those left after
\* lowercasing, punctuation stripping and stop-word removal, a text with at
\* least 3 of them yields the first 3-token window holding a tech keyword,
\* else its first 3 tokens, title-cased; with fewer it yields all of them,
\* with none the first 50 characters of the text.
C22_WindowOfTokens ==
    pc = "normalizer_done" => ys = WindowSelected(xs, Tokens(xs))

\* C22, amended: the same, the meaningful tokens being those of more than 2
\* characters left after lowercasing, punctuation stripping and stop-word
\* removal, and a window holding a tech keyword when the keyword occurs in it
\* as a substring.
C22_WindowOfLongTokens ==
    pc = "normalizer_done" => ys = WindowSelected(xs, LongTokens(xs))

\* the keyword sits in the second window, which is returned
C22_Witness ==
    /\ pc = "normalizer_done"
    /\ xs = "pricing launch! pricing Happy"
    /\ ys = "Launch Pricing Happy"

C22_WitnessPrefix ==
    /\ pc = "normalizer_done"
    /\ Len(xs) > 50
    /\ Len(ys) = 50
    /\ ys = SubSeq(xs, 1, 50)

EmptyTopic(ref) == Deref(heap, ref).topic = ""

\* C23: candidates whose topic is the empty string are never duplicates of
\* each other or of any other candidate: _deduplicate_topics keeps every one
\* of them, keeps of the others what it keeps without them, and evaluates no
\* division by the size of an empty word set.
C23_EmptyTopicsKept ==
    pc \in {"dedup_second", "dedup_end"} =>
        /\ SelectSeq(ys, EmptyTopic) = SelectSeq(xs, EmptyTopic)
        /\ SelectSeq(ys, LAMBDA ref : ~EmptyTopic(ref))
               = DeduplicateTopics(heap, SelectSeq(xs, LAMBDA ref : ~EmptyTopic(ref)))
        /\ \A i, j \in DOMAIN xs :
               ~DividesByEmpty(WordSet(Lower(Deref(heap, xs[i]).topic)),
                               WordSet(Lower(Deref(heap, xs[j]).topic)))

C23_Witness ==
    /\ pc = "dedup_second"
    /\ Len(xs) = 3
    /\ EmptyTopic(xs[1])
    /\ ~EmptyTopic(xs[2])
    /\ EmptyTopic(xs[3])
    /\ xs[1] # xs[3]
    /\ ys = xs

\* C24: generate_content_ideas never raises: for any input list, also one
\* with an element that is no well-formed topic record, the call ends by
\* returning a list of at most 5 ideas.
C24_NeverRaises ==
    /\ pc # "ideas_raised"
    /\ pc = "ideas_done" => Len(prioritized_ideas) <= TopIdeas

\* C25: under any interleaving of schedule_content and process_scheduled_content
\* calls on one Publisher every scheduled entry is attempted at most
\* max_attempts (3) times in all and published at most once, and every entry
\* in publishing_queue has status "scheduled" and attempts < max_attempts.
C25_RetryBound ==
    /\ \A id \in DOMAIN schedule_entries :
          /\ schedule_entries[id].tried <= MaxAttempts
          /\ schedule_entries[id].published <= 1
    /\ \A k \in DOMAIN publishing_queue :
          /\ schedule_entries[publishing_queue[k]].status = "scheduled"
          /\ schedule_entries[publishing_queue[k]].attempts < MaxAttempts

\* two calls overlap; an entry has failed three times and is out of the queue
\* while another is still queued
C25_Witness ==
    /\ \E id \in DOMAIN schedule_entries :
          /\ schedule_entries[id].tried = MaxAttempts
          /\ schedule_entries[id].attempts = MaxAttempts
          /\ schedule_entries[id].status = "failed"
          /\ id \notin Range(publishing_queue)
    /\ \A p \in Procs : processing[p].pc # "idle"
    /\ publishing_queue # <<>>

\* sprints that completed with the id v
CompletedWith(v) == {s \in DOMAIN sprints : sprints[s].pc = "completed" /\ sprints[s].workflow_id = v}

\* history entries with the id v
RecordedWith(v) == {k \in DOMAIN workflow_history : workflow_history[k].id = v}

\* C26: whatever the interleaving of manual_content_sprint calls on one
\* orchestrator, workflow_history holds exactly one entry per sprint that
\* completed, with that sprint's workflow id and status "completed"; a
\* failed sprint adds none and changes no other sprint's record.
C26_HistoryIntegrity ==
    /\ \A k \in DOMAIN workflow_history : workflow_history[k].status = "completed"
    /\ \A v \in 0..MaxTime : Cardinality(RecordedWith(v)) = Cardinality(CompletedWith(v))

(***************************************************************************)
(* CircuitBreaker and handle_api_failure                                   *)
(***************************************************************************)

\* the state of a breaker agrees with its failure count
BreakerStateInvariant(b) ==
    /\ b.state \in {"CLOSED", "OPEN", "HALF_OPEN"}
    /\ b.state = "CLOSED" => b.failure_count < FailureThreshold
    /\ b.state \in {"OPEN", "HALF_OPEN"} => b.failure_count >= FailureThreshold

\* this step runs _on_success on the breaker of api
SuccessStep(api) ==
    \/ \E h \in Handlers : /\ handlers[h].pc = "sleep"
                           /\ handlers[h].api = api
                           /\ handlers'[h].pc = "returned"
    \/ /\ breaker_call.pc = "func"
       /\ breaker_call.api = api
       /\ breaker_call'.outcome = "success"

\* this step runs _on_failure on the breaker of api
FailureStep(api) ==
    \/ \E h \in Handlers : /\ handlers[h].pc = "sleep"
                           /\ handlers[h].api = api
                           /\ handlers'[h].pc = "loop"
    \/ /\ breaker_call.pc = "func"
       /\ breaker_call.api = api
       /\ breaker_call'.outcome = "failure"

\* C27: whatever call, _on_success and _on_failure steps have run (those of
\* handle_api_failure included), a CLOSED breaker has failure_count below
\* failure_threshold and an OPEN or HALF_OPEN one has it at or above; a
\* success in any state sets failure_count to 0 and closes the breaker, and
\* a failure in HALF_OPEN opens it again.
C27_BreakerInvariant ==
    /\ [](\A a \in DOMAIN circuit_breakers : BreakerStateInvariant(circuit_breakers[a]))
    /\ [][\A a \in DOMAIN circuit_breakers :
            /\ SuccessStep(a) =>
                  /\ circuit_breakers'[a].failure_count = 0
                  /\ circuit_breakers'[a].state = "CLOSED"
            /\ (FailureStep(a) /\ circuit_breakers[a].state = "HALF_OPEN") =>
                  circuit_breakers'[a].state = "OPEN"]_vars

\* a call admitted in HALF_OPEN has failed and the breaker is open again,
\* its count above the threshold
C27_Witness ==
    /\ breaker_call.pc = "done"
    /\ breaker_call.half_open
    /\ breaker_call.outcome = "failure"
    /\ circuit_breakers[breaker_call.api].state = "OPEN"
    /\ circuit_breakers[breaker_call.api].failure_count > FailureThreshold
    /\ circuit_breakers[breaker_call.api].last_failure_time = clock

\* a retry of handle_api_failure has succeeded on a breaker that had failures
C27_WitnessSuccess ==
    \E h \in Handlers :
        /\ handlers[h].pc = "returned"
        /\ handlers[h].result.method = "retry"
        /\ handlers[h].attempts_made = 3
        /\ circuit_breakers[handlers[h].api] =
               [state |-> "CLOSED", failure_count |-> 0, last_failure_time |-> 0]

\* C28: a handle_api_failure call made for an API whose breaker is OPEN,
\* after recovery_timeout has elapsed since the last failure, moves the
\* breaker out of OPEN and attempts at least one retry before it returns.
C28_Recovery ==
    \A h \in Handlers :
        (handlers[h].pc = "returned" /\ handlers[h].due_at_call) =>
            handlers[h].attempts_made >= 1

\* the retries of call h are bounded, stop at the first success, and the
\* call returns a dict with a success flag
RetriesBounded(h) ==
    /\ handlers[h].attempts_made <= handlers[h].retry_count
    /\ handlers[h].pc # "returned" => ~handlers[h].result.success
    /\ handlers[h].result.method = "retry" => handlers[h].result.success
    /\ handlers[h].pc = "returned" => "success" \in DOMAIN handlers[h].result

\* C29: a handle_api_failure call makes at most retry_count retry attempts,
\* makes none while the breaker of its API is OPEN, makes none after a retry
\* has succeeded, and returns a dict with a success flag.
C29_BoundedRetries ==
    \A h \in Handlers : RetriesBounded(h) /\ ~handlers[h].open_at_retry

(***************************************************************************)
(* publish_to_twitter                                                      *)
(***************************************************************************)

\* C30: every text publish_to_twitter passes to TwitterClient.post_tweet has
\* at most 280 characters, for a single tweet and for every tweet of a
\* thread of up to 25 tweets; when an input tweet is longer than that,
\* nothing is posted.
C30_TweetLengthLimit ==
    /\ \A k \in DOMAIN post_tweet_calls : post_tweet_calls[k] <= MaxLength
    /\ Len(post_tweet_calls) <= MaxThreadLength
    /\ (thread.pc # "idle" /\ FirstTooLong(thread.tweets, 1) # 0) =>
          post_tweet_calls = <<>>
====
